---- MODULE Spec2Model ----
(***************************************************************************)
(* State-machine model of the world-card-ai game core: the Blackboard      *)
(* (game/state.py), the Action Executor (cards/resolver.py), the priority  *)
(* deck (cards/deck.py), the plot DAG (story/dag.py), the death loop       *)
(* (death/loop.py), the engine (game/engine.py) and the swipe handler of   *)
(* the game screen (ui/screens/game.py) that drives the engine.            *)
(***************************************************************************)
EXTENDS Integers, Sequences, FiniteSets, Bags, TLC

VARIABLES
    stats,                  \* state.stats: stat id -> int
    tags,                   \* state.tags: set of tag ids
    npcs,                   \* state.npcs: npc id -> [enabled, npc_appearance_count]
    day,                    \* state.day
    season_index,           \* state.season_index
    year,                   \* state.year
    turn,                   \* state.turn
    pending_plot_node,      \* state.pending_plot_node: <<>> (None) or <<node id>>
    karma,                  \* state.karma: list of tags
    life_number,            \* state.life_number
    previous_life_tags,     \* state.previous_life_tags
    is_first_day_after_death, \* state.is_first_day_after_death
    welcome_card,           \* state.welcome_card: <<>> or <<card>>
    reborn_card,            \* state.reborn_card
    season_start_card,      \* state.season_start_card
    pending_death_cards,    \* state.pending_death_cards: key -> card
    events,                 \* engine.events: list of events
    deque,                  \* engine.deque._cards (ascending priority)
    cards_consumed,         \* engine.deque.cards_consumed
    immediate_deque,        \* engine.immediate_deque
    fired,                  \* dag.nodes[id].is_fired
    job_queue,              \* engine.job_queue._pending (node ids of plot jobs)
    is_generating,          \* engine._is_generating
    awaiting_resurrection,  \* engine._awaiting_resurrection
    current_card,           \* GameScreen.current_card: <<>> or <<card>>
    pc,                     \* position inside GameScreen.action_swipe / week start
    death,                  \* local `death` of action_swipe: <<>> or <<DeathInfo>>
    req_season_start,       \* is_season_start latched by the generation request
    last_karma,             \* value returned by the last resurrect() call
    swiped,                 \* argument `direction` of the running action_swipe
    crossing,               \* value returned by the last state.advance_day()
                            \* call of the calendar runs: <<>> or <<dict>>
    deck_log                \* calls made on the deck in the deck runs and
                            \* their results, since the last clear()

vars == <<stats, tags, npcs, day, season_index, year, turn, pending_plot_node,
          karma, life_number, previous_life_tags, is_first_day_after_death,
          welcome_card, reborn_card, season_start_card, pending_death_cards,
          events, deque, cards_consumed, immediate_deque, fired, job_queue,
          is_generating, awaiting_resurrection, current_card, pc, death,
          req_season_start, last_karma, swiped, crossing,
          deck_log>>

\* the records of the calendar and deck runs
auxvars == <<crossing, deck_log>>

\* no call was made on the deck yet
NoLog ==
    [op |-> "none", args |-> <<>>, returned |-> <<>>, inserted |-> EmptyBag,
     drawn |-> EmptyBag, interleaved |-> FALSE]

----------------------------------------------------------------------------
(* Program constants *)

DAYS_PER_WEEK == 7
WEEKS_PER_SEASON == 4
DAYS_PER_SEASON == DAYS_PER_WEEK * WEEKS_PER_SEASON
SEASONS_PER_YEAR == 4
DAYS_PER_YEAR == DAYS_PER_SEASON * SEASONS_PER_YEAR
WEEK_DECK_SIZE == DAYS_PER_WEEK

STAT_MIN == 0
STAT_MAX == 100
STAT_RESET == 50
KARMA_CAP == 10

PRIORITY_FILTER == 0
PRIORITY_COMMON == 1
PRIORITY_EVENT == 2
PRIORITY_PLOT == 3
PRIORITY_TREE == 4
PRIORITY_STORY == 5

SourcesWithPriority == {"common", "event", "plot", "tree", "story"}

SOURCE_TO_PRIORITY(source) ==
    CASE source = "common" -> PRIORITY_COMMON
      [] source = "event"  -> PRIORITY_EVENT
      [] source = "plot"   -> PRIORITY_PLOT
      [] source = "tree"   -> PRIORITY_TREE
      [] source = "story"  -> PRIORITY_STORY

WELCOME_CARD_ID == "welcome_message"
REBORN_CARD_PREFIX == "reborn_"
SEASON_CARD_PREFIX == "season_"
DEATH_CARD_PREFIX == "death_"

(* Bounds of the model (not program constants) *)
MaxLife == 3          \* no death is handled once life_number reaches MaxLife
MaxConsumed == 5      \* no deck draw once deque.cards_consumed reaches MaxConsumed
MaxYear == 2          \* no card is resolved once year exceeds MaxYear

----------------------------------------------------------------------------
(* Generic helpers *)

Max(a, b) == IF a >= b THEN a ELSE b
Min(a, b) == IF a <= b THEN a ELSE b

StartsWith(s, prefix) ==
    Len(s) >= Len(prefix) /\ SubSeq(s, 1, Len(prefix)) = prefix

RECURSIVE SeqToSet(_)
SeqToSet(s) == IF s = <<>> THEN {} ELSE {Head(s)} \cup SeqToSet(Tail(s))

RemoveAt(s, i) == SubSeq(s, 1, i - 1) \o SubSeq(s, i + 1, Len(s))

InsertAt(s, i, x) == SubSeq(s, 1, i - 1) \o <<x>> \o SubSeq(s, i, Len(s))

----------------------------------------------------------------------------
(* Function calls: FunctionCall(name, params).  params is the parameter    *)
(* map; a key that is absent from the map has has_<key> = FALSE or the      *)
(* empty string, and the handlers read it with the defaults of the code.   *)
(* items holds the remaining stat-id -> delta entries of the flat          *)
(* update_stat format, in dict order; ok = FALSE is a delta that int()     *)
(* cannot coerce.                                                          *)

CondTrue == [op |-> "true", key |-> "", n |-> 0]
CondEmpty == [op |-> "malformed", key |-> "", n |-> 0]
CondStatGt(sid, n) == [op |-> "stat_gt", key |-> sid, n |-> n]
CondStatLt(sid, n) == [op |-> "stat_lt", key |-> sid, n |-> n]
CondHasTag(t) == [op |-> "has_tag", key |-> t, n |-> 0]
CondElapsedGe(n) == [op |-> "elapsed_ge", key |-> "", n |-> n]

NoParams ==
    [has_stat_id |-> FALSE, stat_id |-> "", has_delta |-> FALSE, delta |-> 0,
     delta_ok |-> TRUE, items |-> <<>>, tag_id |-> "", event_id |-> "",
     has_type |-> FALSE, type |-> "", nphases |-> 0, has_target |-> FALSE,
     target |-> 0, has_deadline |-> FALSE, deadline |-> <<0, 0, 0>>,
     has_end_condition |-> FALSE, end_condition |-> CondEmpty,
     npc_id |-> "", days |-> 0]

FC(name, params) == [name |-> name, params |-> params]

Item(k, v) == [k |-> k, v |-> v, ok |-> TRUE]

CallUpdateStatFlat(items) == FC("update_stat", [NoParams EXCEPT !.items = items])
CallUpdateStat1(sid, d) == CallUpdateStatFlat(<<Item(sid, d)>>)
CallUpdateStatExplicit(sid, d) ==
    FC("update_stat", [NoParams EXCEPT !.has_stat_id = TRUE, !.stat_id = sid,
                                       !.has_delta = TRUE, !.delta = d])
CallAddTag(t) == FC("add_tag", [NoParams EXCEPT !.tag_id = t])
CallRemoveTag(t) == FC("remove_tag", [NoParams EXCEPT !.tag_id = t])
CallAddPhaseEvent(id, n) ==
    FC("add_event", [NoParams EXCEPT !.event_id = id, !.has_type = TRUE,
                                     !.type = "phase", !.nphases = n])
CallAddProgressEvent(id, target) ==
    FC("add_event", [NoParams EXCEPT !.event_id = id, !.has_type = TRUE,
                                     !.type = "progress", !.has_target = TRUE,
                                     !.target = target])
CallAddTimedEvent(id, deadline) ==
    FC("add_event", [NoParams EXCEPT !.event_id = id, !.has_type = TRUE,
                                     !.type = "timed", !.has_deadline = TRUE,
                                     !.deadline = deadline])
CallAddConditionEvent(id, cond) ==
    FC("add_event", [NoParams EXCEPT !.event_id = id, !.has_type = TRUE,
                                     !.type = "condition",
                                     !.has_end_condition = TRUE,
                                     !.end_condition = cond])
CallRemoveEvent(id) == FC("remove_event", [NoParams EXCEPT !.event_id = id])
CallAdvanceEvent(id) == FC("advance_event", [NoParams EXCEPT !.event_id = id])
CallUpdateEventProgress(id, d) ==
    FC("update_event_progress",
       [NoParams EXCEPT !.event_id = id, !.has_delta = TRUE, !.delta = d])
CallEnableNpc(id) == FC("enable_npc", [NoParams EXCEPT !.npc_id = id])
CallDisableNpc(id) == FC("disable_npc", [NoParams EXCEPT !.npc_id = id])
CallAdvanceTime(n) == FC("advance_time", [NoParams EXCEPT !.days = n])

----------------------------------------------------------------------------
(* Calendar (GlobalBlackboard).  b is the part of the engine state that    *)
(* the Action Executor reads and writes: stats, tags, npcs, day,           *)
(* season_index, year, turn, events.                                       *)

\* faulty variant: the week ends one call late
advance_day_late_week(b) ==
    LET d1 == b.day + 1
        t1 == b.turn + 1
        week_end == t1 > DAYS_PER_WEEK
        season_end == d1 > DAYS_PER_SEASON
        s1 == IF season_end THEN (b.season_index + 1) % SEASONS_PER_YEAR
              ELSE b.season_index
    IN [b |-> [b EXCEPT !.day = IF season_end THEN 1 ELSE d1,
                        !.turn = IF week_end THEN 0 ELSE t1,
                        !.season_index = s1,
                        !.year = IF season_end /\ s1 = 0 THEN b.year + 1
                                 ELSE b.year],
        week_end |-> week_end,
        season_end |-> season_end]

\* faulty variant: the year is advanced at every season end
advance_day_year_each_season(b) ==
    LET d1 == b.day + 1
        t1 == b.turn + 1
        week_end == t1 >= DAYS_PER_WEEK
        season_end == d1 > DAYS_PER_SEASON
        s1 == IF season_end THEN (b.season_index + 1) % SEASONS_PER_YEAR
              ELSE b.season_index
    IN [b |-> [b EXCEPT !.day = IF season_end THEN 1 ELSE d1,
                        !.turn = IF week_end THEN 0 ELSE t1,
                        !.season_index = s1,
                        !.year = IF season_end THEN b.year + 1 ELSE b.year],
        week_end |-> week_end,
        season_end |-> season_end]

advance_day(b) ==
    LET d1 == b.day + 1
        t1 == b.turn + 1
        week_end == t1 >= DAYS_PER_WEEK
        season_end == d1 > DAYS_PER_SEASON
        s1 == IF season_end THEN (b.season_index + 1) % SEASONS_PER_YEAR
              ELSE b.season_index
    IN [b |-> [b EXCEPT !.day = IF season_end THEN 1 ELSE d1,
                        !.turn = IF week_end THEN 0 ELSE t1,
                        !.season_index = s1,
                        !.year = IF season_end /\ s1 = 0 THEN b.year + 1
                                 ELSE b.year],
        week_end |-> week_end,
        season_end |-> season_end]

elapsed_days(d, s, y, sd, ss, sy) ==
    (y * DAYS_PER_YEAR + s * DAYS_PER_SEASON + d)
    - (sy * DAYS_PER_YEAR + ss * DAYS_PER_SEASON + sd)

----------------------------------------------------------------------------
(* Events (game/events.py): one record shape for the four variants.        *)

NewEvent(id, type) ==
    [id |-> id, type |-> type, nphases |-> 0, current_phase |-> 0,
     target |-> 0, current |-> 0, deadline |-> <<1, 1, 1>>,
     has_deadline |-> TRUE, end_condition |-> CondEmpty,
     on_action_end_calls |-> <<>>]

PhaseEvent_is_finished(e) == e.current_phase >= e.nphases

ProgressEvent_is_finished(e) == e.current >= e.target

advance_phase(e) ==
    IF PhaseEvent_is_finished(e) THEN e
    ELSE [e EXCEPT !.current_phase = e.current_phase + 1]

update_progress(e, delta) == [e EXCEPT !.current = e.current + delta]

set_deadline(e, has, deadline) ==
    [e EXCEPT !.has_deadline = has, !.deadline = deadline]

\* index of the first event with this id and type, 0 if there is none
RECURSIVE FirstEvent(_, _, _, _)
FirstEvent(evs, id, type, i) ==
    IF i > Len(evs) THEN 0
    ELSE IF evs[i].id = id /\ evs[i].type = type THEN i
    ELSE FirstEvent(evs, id, type, i + 1)

RECURSIVE EventsWithout(_, _)
EventsWithout(evs, id) ==
    IF evs = <<>> THEN <<>>
    ELSE (IF Head(evs).id # id THEN <<Head(evs)>> ELSE <<>>)
         \o EventsWithout(Tail(evs), id)

----------------------------------------------------------------------------
(* Action Executor (cards/resolver.py).  Each handler maps b to the new b; *)
(* update_stat also returns the applied changes, a function from the stat  *)
(* ids it wrote to the net change.                                         *)

\* faulty variant: the sum is written as it is
NoClamp(v) == v

ClampStat(v) == Max(STAT_MIN, Min(STAT_MAX, v))

WriteStat(r, stat_id, old, new) ==
    [b |-> [r.b EXCEPT !.stats[stat_id] = new],
     changes |-> (stat_id :> (new - old)) @@ r.changes]

\* faulty variant: an unknown stat is created at the reset value
ApplyStatDeltaCreating(r, stat_id, delta) ==
    IF stat_id \in DOMAIN r.b.stats
    THEN WriteStat(r, stat_id, r.b.stats[stat_id],
                   ClampStat(r.b.stats[stat_id] + delta))
    ELSE [b |-> [r.b EXCEPT !.stats =
                     (stat_id :> ClampStat(STAT_RESET + delta)) @@ r.b.stats],
          changes |-> (stat_id :> delta) @@ r.changes]

ApplyStatDelta(r, stat_id, delta) ==
    IF stat_id \in DOMAIN r.b.stats
    THEN WriteStat(r, stat_id, r.b.stats[stat_id],
                   ClampStat(r.b.stats[stat_id] + delta))
    ELSE r

RECURSIVE ApplyStatItems(_, _)
ApplyStatItem(r, it) == IF it.ok THEN ApplyStatDelta(r, it.k, it.v) ELSE r

ApplyStatItems(r, items) ==
    IF items = <<>> THEN r
    ELSE ApplyStatItems(ApplyStatItem(r, Head(items)), Tail(items))

UpdateStatFrom(r0, p) ==
    IF p.has_stat_id /\ p.has_delta
    THEN IF ~p.delta_ok THEN r0
         ELSE ApplyStatDelta(r0, p.stat_id, p.delta)
    ELSE ApplyStatItems(r0, p.items)

update_stat(b, p) == UpdateStatFrom([b |-> b, changes |-> <<>>], p)

add_tag(b, p) ==
    IF p.tag_id # "" THEN [b EXCEPT !.tags = b.tags \cup {p.tag_id}] ELSE b

remove_tag(b, p) == [b EXCEPT !.tags = b.tags \ {p.tag_id}]

AddEventOfType(b, p, event_type, base) ==
    IF p.event_id = "" THEN b
    ELSE IF event_type = "phase"
    THEN [b EXCEPT !.events = Append(b.events,
                                     [base EXCEPT !.nphases = p.nphases])]
    ELSE IF event_type = "progress"
    THEN [b EXCEPT !.events = Append(b.events,
              [base EXCEPT !.target = IF p.has_target THEN p.target ELSE 0])]
    ELSE IF event_type = "timed"
    THEN [b EXCEPT !.events = Append(b.events,
              [base EXCEPT !.deadline = IF p.has_deadline THEN p.deadline
                                        ELSE <<1, 1, 1>>])]
    ELSE IF event_type = "condition"
    THEN [b EXCEPT !.events = Append(b.events,
              [base EXCEPT !.end_condition =
                  IF p.has_end_condition THEN p.end_condition ELSE CondEmpty])]
    ELSE b

EventTypeOf(p) == IF p.has_type THEN p.type ELSE "phase"

add_event(b, p) ==
    AddEventOfType(b, p, EventTypeOf(p), NewEvent(p.event_id, EventTypeOf(p)))

remove_event(b, p) == [b EXCEPT !.events = EventsWithout(b.events, p.event_id)]

AdvanceEventAt(b, i) ==
    IF i = 0 THEN b ELSE [b EXCEPT !.events[i] = advance_phase(b.events[i])]

advance_event(b, p) ==
    AdvanceEventAt(b, FirstEvent(b.events, p.event_id, "phase", 1))

UpdateProgressAt(b, i, delta) ==
    IF i = 0 THEN b
    ELSE [b EXCEPT !.events[i] = update_progress(b.events[i], delta)]

update_event_progress(b, p) ==
    UpdateProgressAt(b, FirstEvent(b.events, p.event_id, "progress", 1),
                     IF p.has_delta THEN p.delta ELSE 0)

ChangeDeadlineAt(b, i, p) ==
    IF i = 0 THEN b
    ELSE [b EXCEPT !.events[i] =
              set_deadline(b.events[i], p.has_deadline, p.deadline)]

change_event_deadline(b, p) ==
    ChangeDeadlineAt(b, FirstEvent(b.events, p.event_id, "timed", 1), p)

enable_npc(b, p) ==
    IF p.npc_id \in DOMAIN b.npcs
    THEN [b EXCEPT !.npcs[p.npc_id].enabled = TRUE] ELSE b

disable_npc(b, p) ==
    IF p.npc_id \in DOMAIN b.npcs
    THEN [b EXCEPT !.npcs[p.npc_id].enabled = FALSE] ELSE b

RECURSIVE AdvanceDays(_, _)
AdvanceDays(b, n) == IF n <= 0 THEN b ELSE AdvanceDays(advance_day(b).b, n - 1)

advance_time(b, p) == IF p.days > 0 THEN AdvanceDays(b, p.days) ELSE b

Registry ==
    {"update_stat", "add_tag", "remove_tag", "add_event", "remove_event",
     "advance_event", "update_event_progress", "change_event_deadline",
     "enable_npc", "disable_npc", "advance_time"}

HandleNamed(b, name, p) ==
    CASE name = "add_tag" -> add_tag(b, p)
      [] name = "remove_tag" -> remove_tag(b, p)
      [] name = "add_event" -> add_event(b, p)
      [] name = "remove_event" -> remove_event(b, p)
      [] name = "advance_event" -> advance_event(b, p)
      [] name = "update_event_progress" -> update_event_progress(b, p)
      [] name = "change_event_deadline" -> change_event_deadline(b, p)
      [] name = "enable_npc" -> enable_npc(b, p)
      [] name = "disable_npc" -> disable_npc(b, p)
      [] name = "advance_time" -> advance_time(b, p)
      [] OTHER -> b

Handle(b, call) == HandleNamed(b, call.name, call.params)

\* execute(calls): r = [b, changes]; the result of an update_stat call
\* overwrites the entries of stat_changes for the stats it wrote
MergeChanges(u, stat_changes) ==
    [b |-> u.b, changes |-> u.changes @@ stat_changes]

ExecuteCall(r, call) ==
    IF call.name \notin Registry THEN r
    ELSE IF call.name = "update_stat"
    THEN MergeChanges(update_stat(r.b, call.params), r.changes)
    ELSE [b |-> Handle(r.b, call), changes |-> r.changes]

\* faulty variant: a name without a handler ends the execution of the list
RECURSIVE ExecuteFromUntilUnknown(_, _)
ExecuteFromUntilUnknown(r, calls) ==
    IF calls = <<>> THEN r
    ELSE IF Head(calls).name \notin Registry THEN r
    ELSE ExecuteFromUntilUnknown(ExecuteCall(r, Head(calls)), Tail(calls))

RECURSIVE ExecuteFrom(_, _)
ExecuteFrom(r, calls) ==
    IF calls = <<>> THEN r
    ELSE ExecuteFrom(ExecuteCall(r, Head(calls)), Tail(calls))

execute(b, calls) == ExecuteFrom([b |-> b, changes |-> <<>>], calls)

----------------------------------------------------------------------------
(* Cards (cards/models.py) and the validator (cards/validator.py).         *)
(* A CardDef is [id, type, character, source, left_calls, right_calls,     *)
(* tree_left, tree_right, next_cards]; a Card is [id, type, character,     *)
(* source, priority, left, right, tree_left, tree_right, next_cards].      *)

ChoiceCardDef(id, character, source, left_calls, right_calls, tree_left, tree_right) ==
    [id |-> id, type |-> "choice", character |-> character, source |-> source,
     left_calls |-> left_calls, right_calls |-> right_calls,
     tree_left |-> tree_left, tree_right |-> tree_right, next_cards |-> <<>>]

InfoCardDef(id, character, source, next_cards) ==
    [id |-> id, type |-> "info", character |-> character, source |-> source,
     left_calls |-> <<>>, right_calls |-> <<>>,
     tree_left |-> <<>>, tree_right |-> <<>>, next_cards |-> next_cards]

InfoCard(id, character, source, priority, next_cards) ==
    [id |-> id, type |-> "info", character |-> character, source |-> source,
     priority |-> priority, left |-> <<>>, right |-> <<>>,
     tree_left |-> <<>>, tree_right |-> <<>>, next_cards |-> next_cards]

ChoiceCard(id, character, source, priority, left, right, tree_left, tree_right) ==
    [id |-> id, type |-> "choice", character |-> character, source |-> source,
     priority |-> priority, left |-> left, right |-> right,
     tree_left |-> tree_left, tree_right |-> tree_right, next_cards |-> <<>>]

validate_character(npc_id, known_ids) ==
    IF npc_id \in known_ids \/ npc_id = "narrator" THEN npc_id ELSE "narrator"

\* swap[id] is the outcome of random.choice([True, False]) while the card
\* definition with that id is validated
RECURSIVE validate_card_def(_, _, _)
RECURSIVE validate_card_defs(_, _, _)
validate_card_def(cd, known_ids, swap) ==
    LET card_id == IF cd.id = "" THEN "uuid" ELSE cd.id
        character == validate_character(cd.character, known_ids)
        source == IF cd.source \in SourcesWithPriority THEN cd.source ELSE "common"
        priority == SOURCE_TO_PRIORITY(source)
        tl == validate_card_defs(cd.tree_left, known_ids, swap)
        tr == validate_card_defs(cd.tree_right, known_ids, swap)
        sw == cd.id \in DOMAIN swap /\ swap[cd.id]
    IN IF cd.type = "info"
       THEN InfoCard(card_id, character, source, priority,
                     validate_card_defs(cd.next_cards, known_ids, swap))
       ELSE IF sw
       THEN ChoiceCard(card_id, character, source, priority,
                       cd.right_calls, cd.left_calls, tr, tl)
       ELSE ChoiceCard(card_id, character, source, priority,
                       cd.left_calls, cd.right_calls, tl, tr)

validate_card_defs(cds, known_ids, swap) ==
    IF cds = <<>> THEN <<>>
    ELSE <<validate_card_def(Head(cds), known_ids, swap)>>
         \o validate_card_defs(Tail(cds), known_ids, swap)

\* ids of the choice-card definitions of a list, nested ones included
RECURSIVE ChoiceIds(_)
ChoiceIds(cds) ==
    IF cds = <<>> THEN {}
    ELSE LET cd == Head(cds)
         IN (IF cd.type = "choice" THEN {cd.id} ELSE {})
            \cup ChoiceIds(cd.tree_left) \cup ChoiceIds(cd.tree_right)
            \cup ChoiceIds(cd.next_cards) \cup ChoiceIds(Tail(cds))

----------------------------------------------------------------------------
(* Priority deck (cards/deck.py): _cards in ascending priority, drawn from *)
(* the tail.                                                               *)

\* bisect.bisect_left(priorities, x) with 0-based lo, hi
RECURSIVE bisect_left(_, _, _, _)
bisect_left(cards, x, lo, hi) ==
    IF lo >= hi THEN lo
    ELSE LET mid == (lo + hi) \div 2
         IN IF cards[mid + 1].priority < x
            THEN bisect_left(cards, x, mid + 1, hi)
            ELSE bisect_left(cards, x, lo, mid)

\* faulty variant: the first card is evicted whatever its source
FirstAny(cards, i) == IF i > Len(cards) THEN 0 ELSE i

\* 1-based index of the first card whose source is "common", 0 if none
RECURSIVE FirstCommon(_, _)
FirstCommon(cards, i) ==
    IF i > Len(cards) THEN 0
    ELSE IF cards[i].source = "common" THEN i
    ELSE FirstCommon(cards, i + 1)

\* faulty variant: one card at most is evicted (if in place of while)
evict_once(cards, capacity) ==
    IF Len(cards) > capacity
    THEN LET i == FirstCommon(cards, 1)
         IN IF i = 0 THEN cards ELSE RemoveAt(cards, i)
    ELSE cards

RECURSIVE evict_if_needed(_, _)
evict_if_needed(cards, capacity) ==
    IF Len(cards) > capacity
    THEN LET i == FirstCommon(cards, 1)
         IN IF i = 0 THEN cards
            ELSE evict_if_needed(RemoveAt(cards, i), capacity)
    ELSE cards

\* faulty variant: the card takes the place of the card at its position
PlaceCardOver(cards, card) ==
    LET i == bisect_left(cards, card.priority, 0, Len(cards)) + 1
    IN IF i <= Len(cards) THEN [cards EXCEPT ![i] = card]
       ELSE Append(cards, card)

PlaceCard(cards, card) ==
    InsertAt(cards, bisect_left(cards, card.priority, 0, Len(cards)) + 1, card)

deque_insert(cards, capacity, card) ==
    evict_if_needed(PlaceCard(cards, card), capacity)

RECURSIVE PlaceCards(_, _)
PlaceCards(cards, new) ==
    IF new = <<>> THEN cards
    ELSE PlaceCards(PlaceCard(cards, Head(new)), Tail(new))

bulk_insert(cards, capacity, new) ==
    evict_if_needed(PlaceCards(cards, new), capacity)

\* faulty variant: the card is taken from the front of the list
deque_draw_front(cards, consumed) ==
    IF cards = <<>>
    THEN [card |-> <<>>, cards |-> cards, cards_consumed |-> consumed]
    ELSE [card |-> <<cards[1]>>,
          cards |-> Tail(cards),
          cards_consumed |-> consumed + 1]

\* draw(): [card, cards, cards_consumed]; card = <<>> when the deck is empty
deque_draw(cards, consumed) ==
    IF cards = <<>>
    THEN [card |-> <<>>, cards |-> cards, cards_consumed |-> consumed]
    ELSE [card |-> <<cards[Len(cards)]>>,
          cards |-> SubSeq(cards, 1, Len(cards) - 1),
          cards_consumed |-> consumed + 1]

\* clear(): [cards, cards_consumed]
deque_clear == [cards |-> <<>>, cards_consumed |-> 0]

----------------------------------------------------------------------------
(* The generated world the engine is built from (build_from_schema): two   *)
(* stats, one NPC, four seasons with their hook calls and a plot DAG.      *)

StatOrder == <<"treasury", "military">>     \* dict order of state.stats
StatIds == SeqToSet(StatOrder)
NpcIds == {"king"}
known_ids == NpcIds \cup {"narrator"}

START_DAY == 1
START_SEASON_INDEX == 0
StartYear == 1

Season(on_season_end_calls, on_week_end_calls) ==
    [on_season_end_calls |-> on_season_end_calls,
     on_week_end_calls |-> on_week_end_calls]

\* state.seasons, indexed from 1 here (seasons[season_index + 1])
seasons ==
    <<Season(<<CallUpdateStat1("treasury", 30)>>,
             <<CallUpdateStatExplicit("military", -30)>>),
      Season(<<>>, <<CallAddTag("_temp_scared")>>),
      Season(<<CallRemoveTag("brave")>>, <<>>),
      Season(<<>>, <<CallUpdateStat1("treasury", -30)>>)>>

PlotNodeDef(id, condition, calls, next_nodes, is_ending) ==
    [id |-> id, condition |-> condition, calls |-> calls,
     next_nodes |-> next_nodes, is_ending |-> is_ending]

\* world.plot_nodes in declaration order (the order of dag.nodes)
PlotDefs ==
    <<PlotNodeDef("rise", CondStatGt("treasury", 60),
                  <<CallAddProgressEvent("siege", 1)>>, <<"crown">>, FALSE),
      PlotNodeDef("crown", CondHasTag("brave"), <<>>, <<>>, TRUE),
      PlotNodeDef("ruin", CondStatLt("military", 30),
                  <<CallUpdateStat1("military", -30)>>, <<>>, TRUE),
      PlotNodeDef("omen", CondEmpty, <<CallAddTag("doomed")>>, <<>>, FALSE)>>

NodeIds == {PlotDefs[i].id : i \in 1..Len(PlotDefs)}

NodeDef(id) == PlotDefs[CHOOSE i \in 1..Len(PlotDefs) : PlotDefs[i].id = id]

\* graph.predecessors(node_id): add_edge keeps an edge only between known nodes
predecessors(node_id) ==
    {PlotDefs[i].id : i \in {j \in 1..Len(PlotDefs) :
                               /\ node_id \in SeqToSet(PlotDefs[j].next_nodes)
                               /\ node_id \in NodeIds}}

----------------------------------------------------------------------------
(* Boolean expressions of plot conditions and event end-conditions: the    *)
(* result of eval(expr, ctx); ok = FALSE when the evaluation raises.       *)

\* faulty variant: an expression that does not evaluate counts as true
EvalCondLenient(c, ctx) ==
    CASE c.op = "true" -> [ok |-> TRUE, val |-> TRUE]
      [] c.op = "stat_gt" ->
            IF c.key \in DOMAIN ctx.stats
            THEN [ok |-> TRUE, val |-> ctx.stats[c.key] > c.n]
            ELSE [ok |-> TRUE, val |-> TRUE]
      [] c.op = "stat_lt" ->
            IF c.key \in DOMAIN ctx.stats
            THEN [ok |-> TRUE, val |-> ctx.stats[c.key] < c.n]
            ELSE [ok |-> TRUE, val |-> TRUE]
      [] c.op = "has_tag" -> [ok |-> TRUE, val |-> c.key \in ctx.tags]
      [] c.op = "has_event" -> [ok |-> TRUE, val |-> c.key \in ctx.events]
      [] c.op = "elapsed_ge" -> [ok |-> TRUE, val |-> ctx.elapsed_days >= c.n]
      [] OTHER -> [ok |-> TRUE, val |-> TRUE]

EvalCond(c, ctx) ==
    CASE c.op = "true" -> [ok |-> TRUE, val |-> TRUE]
      [] c.op = "stat_gt" ->
            IF c.key \in DOMAIN ctx.stats
            THEN [ok |-> TRUE, val |-> ctx.stats[c.key] > c.n]
            ELSE [ok |-> FALSE, val |-> FALSE]
      [] c.op = "stat_lt" ->
            IF c.key \in DOMAIN ctx.stats
            THEN [ok |-> TRUE, val |-> ctx.stats[c.key] < c.n]
            ELSE [ok |-> FALSE, val |-> FALSE]
      [] c.op = "has_tag" -> [ok |-> TRUE, val |-> c.key \in ctx.tags]
      [] c.op = "has_event" -> [ok |-> TRUE, val |-> c.key \in ctx.events]
      [] c.op = "elapsed_ge" -> [ok |-> TRUE, val |-> ctx.elapsed_days >= c.n]
      [] OTHER -> [ok |-> FALSE, val |-> FALSE]

Context(b, event_ids) ==
    [stats |-> b.stats, tags |-> b.tags, events |-> event_ids,
     season |-> b.season_index, day |-> b.day, year |-> b.year,
     elapsed_days |-> elapsed_days(b.day, b.season_index, b.year,
                                   START_DAY, START_SEASON_INDEX, StartYear)]

----------------------------------------------------------------------------
(* Plot DAG (story/dag.py).  f is the is_fired flag of every node.         *)

check_condition(node, b) ==
    LET r == EvalCond(node.condition, Context(b, {}))
    IN IF r.ok THEN r.val ELSE FALSE

\* faulty variant: the predecessors are not looked at
IsActivatableAlone(f, b, node) ==
    /\ ~f[node.id]
    /\ check_condition(node, b)

IsActivatable(f, b, node) ==
    /\ ~f[node.id]
    /\ LET preds == predecessors(node.id)
       IN ~(preds # {} /\ ~(\A q \in preds : q \in NodeIds => f[q]))
    /\ check_condition(node, b)

\* ids of the activatable nodes, in the order of dag.nodes, from index i on
RECURSIVE ActivatableFrom(_, _, _)
ActivatableFrom(f, b, i) ==
    IF i > Len(PlotDefs) THEN <<>>
    ELSE (IF IsActivatable(f, b, PlotDefs[i]) THEN <<PlotDefs[i].id>> ELSE <<>>)
         \o ActivatableFrom(f, b, i + 1)

get_activatable_nodes(f, b) == ActivatableFrom(f, b, 1)

\* faulty variant: the node is returned without being marked fired
fire_node_unmarked(f, node_id) ==
    IF node_id \notin NodeIds THEN [node |-> <<>>, fired |-> f]
    ELSE [node |-> <<NodeDef(node_id)>>, fired |-> f]

\* fire_node(node_id): [node, fired]; node = <<>> when the id is unknown
fire_node(f, node_id) ==
    IF node_id \notin NodeIds THEN [node |-> <<>>, fired |-> f]
    ELSE [node |-> <<NodeDef(node_id)>>, fired |-> [f EXCEPT ![node_id] = TRUE]]

\* check_ending(): <<>> or <<id of the first fired ending node>>
RECURSIVE EndingFrom(_, _)
EndingFrom(f, i) ==
    IF i > Len(PlotDefs) THEN <<>>
    ELSE IF PlotDefs[i].is_ending /\ f[PlotDefs[i].id] THEN <<PlotDefs[i].id>>
    ELSE EndingFrom(f, i + 1)

check_ending(f) == EndingFrom(f, 1)

\* faulty variant: every node is un-fired
reset_all(f, keep_fired) == [id \in DOMAIN f |-> FALSE]

partial_reset(f, keep_fired) ==
    [id \in NodeIds |->
        IF keep_fired # {} /\ id \in keep_fired THEN f[id]
        ELSE IF ~NodeDef(id).is_ending THEN FALSE
        ELSE f[id]]

----------------------------------------------------------------------------
(* Death loop (death/loop.py).                                             *)

DeathInfo(cause_stat, cause_value, b, life) ==
    [cause_stat |-> cause_stat, cause_value |-> cause_value, turn |-> b.turn,
     life_number |-> life, tags_at_death |-> b.tags, stats_at_death |-> b.stats]

\* scan of state.stats.items() from index i on: <<>> or <<DeathInfo>>
RECURSIVE CheckDeathFrom(_, _, _)
CheckDeathFrom(b, life, i) ==
    IF i > Len(StatOrder) THEN <<>>
    ELSE LET stat_id == StatOrder[i]
             value == b.stats[stat_id]
         IN IF value <= 0 THEN <<DeathInfo(stat_id, 0, b, life)>>
            ELSE IF value >= 100 THEN <<DeathInfo(stat_id, 100, b, life)>>
            ELSE CheckDeathFrom(b, life, i + 1)

\* faulty variant: only a stat at the upper bound is reported
RECURSIVE CheckDeathMaxOnly(_, _, _)
CheckDeathMaxOnly(b, life, i) ==
    IF i > Len(StatOrder) THEN <<>>
    ELSE IF b.stats[StatOrder[i]] >= 100
    THEN <<DeathInfo(StatOrder[i], 100, b, life)>>
    ELSE CheckDeathMaxOnly(b, life, i + 1)

check_death_max_only(b, life) == CheckDeathMaxOnly(b, life, 1)

check_death(b, life) == CheckDeathFrom(b, life, 1)

\* the tags of the iteration order tag_order that do not start with "_temp"
RECURSIVE important_tags(_)
important_tags(tag_order) ==
    IF tag_order = <<>> THEN <<>>
    ELSE (IF ~StartsWith(Head(tag_order), "_temp") THEN <<Head(tag_order)>>
          ELSE <<>>) \o important_tags(Tail(tag_order))

\* the iteration orders of a set of tags
TagOrders(S) ==
    {o \in [1..Cardinality(S) -> S] : \A i, j \in DOMAIN o : i # j => o[i] # o[j]}

\* faulty variant: every important tag is carried over, without the cap
resurrect_uncapped(b, m, tag_order) ==
    [karma_returned |-> important_tags(tag_order),
     m |-> [previous_life_tags |-> important_tags(tag_order),
            karma |-> m.karma \o important_tags(tag_order),
            life_number |-> m.life_number + 1],
     b |-> [b EXCEPT !.tags = SeqToSet(important_tags(tag_order)),
                     !.stats = [sid \in DOMAIN b.stats |-> STAT_RESET],
                     !.npcs = [n \in DOMAIN b.npcs |->
                                  [b.npcs[n] EXCEPT !.npc_appearance_count = 0]],
                     !.season_index = (b.season_index + 1) % SEASONS_PER_YEAR,
                     !.year = IF (b.season_index + 1) % SEASONS_PER_YEAR = 0
                              THEN b.year + 1 ELSE b.year,
                     !.day = 1,
                     !.turn = 0]]

\* faulty variant: the week counter of the previous life is kept
resurrect_keeping_turn(b, m, tag_order) ==
    [resurrect_uncapped(b, m, tag_order) EXCEPT
        !.karma_returned =
            SubSeq(important_tags(tag_order), 1,
                   Min(KARMA_CAP, Len(important_tags(tag_order)))),
        !.m.previous_life_tags =
            SubSeq(important_tags(tag_order), 1,
                   Min(KARMA_CAP, Len(important_tags(tag_order)))),
        !.m.karma =
            m.karma \o SubSeq(important_tags(tag_order), 1,
                              Min(KARMA_CAP, Len(important_tags(tag_order)))),
        !.b.tags =
            SeqToSet(SubSeq(important_tags(tag_order), 1,
                            Min(KARMA_CAP, Len(important_tags(tag_order))))),
        !.b.turn = b.turn]

\* DeathLoop.resurrect(state); tag_order is the order in which the set
\* state.tags is iterated.  m holds karma, life_number, previous_life_tags.
resurrect(b, m, tag_order) ==
    LET imp == important_tags(tag_order)
        k == SubSeq(imp, 1, Min(KARMA_CAP, Len(imp)))
        s1 == (b.season_index + 1) % SEASONS_PER_YEAR
    IN [karma_returned |-> k,
        m |-> [previous_life_tags |-> k,
               karma |-> m.karma \o k,
               life_number |-> m.life_number + 1],
        b |-> [b EXCEPT !.tags = SeqToSet(k),
                        !.stats = [sid \in DOMAIN b.stats |-> STAT_RESET],
                        !.npcs = [n \in DOMAIN b.npcs |->
                                     [b.npcs[n] EXCEPT !.npc_appearance_count = 0]],
                        !.season_index = s1,
                        !.year = IF s1 = 0 THEN b.year + 1 ELSE b.year,
                        !.day = 1,
                        !.turn = 0]]

\* faulty variant: the season index is advanced without wrapping
advance_to_next_season_unwrapped(b) ==
    [b EXCEPT !.day = 1, !.season_index = b.season_index + 1]

advance_to_next_season(b) ==
    LET num_seasons == IF Len(seasons) > 0 THEN Len(seasons) ELSE 4
        s1 == (b.season_index + 1) % num_seasons
    IN [b EXCEPT !.day = 1,
                 !.season_index = s1,
                 !.year = IF s1 = 0 THEN b.year + 1 ELSE b.year]

----------------------------------------------------------------------------
(* Writer output: the card definitions the content generator may return.   *)

TreeInfoDef == InfoCardDef("t_aftermath", "narrator", "common", <<>>)

StatCardDef ==
    ChoiceCardDef("c_stat", "king", "common",
                  <<CallUpdateStat1("treasury", 30)>>,
                  <<CallUpdateStatExplicit("military", -30)>>, <<>>, <<>>)

TreeCardDef ==
    ChoiceCardDef("c_tree", "narrator", "plot",
                  <<CallAddTag("brave")>>,
                  <<CallAddTag("_temp_scared"), CallUpdateEventProgress("siege", 1)>>,
                  <<TreeInfoDef>>, <<>>)

TimeCardDef ==
    ChoiceCardDef("c_time", "oracle", "event",
                  <<CallAdvanceTime(6)>>, <<CallAdvanceTime(27)>>, <<>>, <<>>)

WelcomeDef == InfoCardDef("welcome_message", "narrator", "story", <<>>)
RebornDef == InfoCardDef("reborn_1", "narrator", "story", <<>>)
SeasonDef == InfoCardDef("season_start", "narrator", "story", <<>>)
DeathDef ==
    InfoCardDef("death_treasury_max", "narrator", "story",
                <<InfoCardDef("death_epilogue", "narrator", "story", <<>>)>>)

\* the batches generate_batch may return
Batches ==
    {<<WelcomeDef, RebornDef, SeasonDef, DeathDef, StatCardDef>>,
     <<RebornDef, StatCardDef, TreeCardDef>>,
     <<StatCardDef, TimeCardDef>>}

SwapsOf(batch) == [ChoiceIds(batch) -> BOOLEAN]

----------------------------------------------------------------------------
(* Engine (game/engine.py).                                                *)

\* the part of the state the Action Executor works on
B ==
    [stats |-> stats, tags |-> tags, npcs |-> npcs, day |-> day,
     season_index |-> season_index, year |-> year, turn |-> turn,
     events |-> events]

SetB(b) ==
    /\ stats' = b.stats
    /\ tags' = b.tags
    /\ npcs' = b.npcs
    /\ day' = b.day
    /\ season_index' = b.season_index
    /\ year' = b.year
    /\ turn' = b.turn
    /\ events' = b.events

bvars == <<stats, tags, npcs, day, season_index, year, turn, events>>
slotvars == <<welcome_card, reborn_card, season_start_card>>
lifevars == <<karma, life_number, previous_life_tags, last_karma>>

\* faulty variant: the deck is served before the forced cards
DrawDeckFirst(imm, d) ==
    IF d.card # <<>>
    THEN [card |-> d.card, immediate_deque |-> imm,
          cards |-> d.cards, cards_consumed |-> d.cards_consumed]
    ELSE [card |-> IF imm # <<>> THEN <<Head(imm)>> ELSE <<>>,
          immediate_deque |-> IF imm # <<>> THEN Tail(imm) ELSE imm,
          cards |-> d.cards, cards_consumed |-> d.cards_consumed]

draw_card_deck_first(imm, cards, consumed) ==
    DrawDeckFirst(imm, deque_draw(cards, consumed))

\* draw_card(): [card, immediate_deque, cards, cards_consumed]
draw_card(imm, cards, consumed) ==
    IF imm # <<>>
    THEN [card |-> <<Head(imm)>>, immediate_deque |-> Tail(imm),
          cards |-> cards, cards_consumed |-> consumed]
    ELSE LET d == deque_draw(cards, consumed)
         IN [card |-> d.card, immediate_deque |-> imm,
             cards |-> d.cards, cards_consumed |-> d.cards_consumed]

\* ActionExecutor.resolve_card(card, direction)
CountAppearance(b, character) ==
    IF character \in DOMAIN b.npcs
    THEN [b EXCEPT !.npcs[character].npc_appearance_count = @ + 1]
    ELSE b

ChoiceResult(r, card, direction) ==
    [b |-> CountAppearance(r.b, card.character), stat_changes |-> r.changes,
     tree_cards |-> IF direction = "left" THEN card.tree_left
                    ELSE card.tree_right,
     is_info |-> FALSE]

executor_resolve_card(b, card, direction) ==
    IF card.type = "info"
    THEN [b |-> b, stat_changes |-> <<>>, tree_cards |-> card.next_cards,
          is_info |-> TRUE]
    ELSE ChoiceResult(execute(b, IF direction = "left" THEN card.left
                                 ELSE card.right),
                      card, direction)

RECURSIVE InsertTreeCards(_, _)
InsertTreeCards(cards, tree_cards) ==
    IF tree_cards = <<>> THEN cards
    ELSE InsertTreeCards(
             deque_insert(cards, WEEK_DECK_SIZE,
                          [Head(tree_cards) EXCEPT !.priority = PRIORITY_TREE,
                                                   !.source = "tree"]),
             Tail(tree_cards))

\* EventBase declares on_action_end_calls and on_phase_end_calls only, so
\* hasattr(event, "on_day_end_calls") is false for every event
EventHasOnDayEndCalls(e) == FALSE

run_day_end_hooks(b) ==
    IF \E i \in 1..Len(b.events) : EventHasOnDayEndCalls(b.events[i]) THEN b ELSE b

\* e is the engine state the lifecycle hooks work on:
\* [b, pending_plot_node, fired, job_queue]
\* faulty variant: a recorded pending node is kept until it is fired
check_plot_conditions_keeping(e) ==
    LET nodes == get_activatable_nodes(e.fired, e.b)
    IN IF nodes # <<>> /\ e.pending_plot_node = <<>>
       THEN [e EXCEPT !.pending_plot_node = <<nodes[1]>>] ELSE e

check_plot_conditions(e) ==
    LET nodes == get_activatable_nodes(e.fired, e.b)
    IN IF nodes # <<>> THEN [e EXCEPT !.pending_plot_node = <<nodes[1]>>] ELSE e

FirePlot(e, r) ==
    IF r.node = <<>> THEN [e EXCEPT !.pending_plot_node = <<>>]
    ELSE [b |-> execute(e.b, r.node[1].calls).b,
          pending_plot_node |-> <<>>,
          fired |-> r.fired,
          job_queue |-> Append(e.job_queue, r.node[1].id)]

\* faulty variant: after the pending node, the next activatable one is fired
FireNextToo(e1, e2) ==
    IF e2.pending_plot_node = <<>> THEN e1
    ELSE FirePlot(e2, fire_node(e2.fired, e2.pending_plot_node[1]))

FireTwo(e1) == FireNextToo(e1, check_plot_conditions(e1))

fire_pending_plot_twice(e) ==
    IF e.pending_plot_node = <<>> THEN e
    ELSE FireTwo(FirePlot(e, fire_node(e.fired, e.pending_plot_node[1])))

fire_pending_plot(e) ==
    IF e.pending_plot_node = <<>> THEN e
    ELSE FirePlot(e, fire_node(e.fired, e.pending_plot_node[1]))

is_expired(ev, current_date) ==
    LET cd == current_date[1]
        cm == current_date[2]
        cy == current_date[3]
        dd == ev.deadline[1]
        dm == ev.deadline[2]
        dy == ev.deadline[3]
    IN \/ cy > dy
       \/ cy = dy /\ cm > dm
       \/ cy = dy /\ cm = dm /\ cd >= dd

EventFinished(b, ev) ==
    CASE ev.type = "phase" -> PhaseEvent_is_finished(ev)
      [] ev.type = "progress" -> ProgressEvent_is_finished(ev)
      [] ev.type = "timed" -> is_expired(ev, <<b.day, b.season_index, b.year>>)
      [] ev.type = "condition" ->
            LET r == EvalCond(ev.end_condition,
                              Context(b, {b.events[i].id : i \in 1..Len(b.events)}))
            IN r.ok /\ r.val
      [] OTHER -> FALSE

RECURSIVE KeepUnfinished(_, _)
KeepUnfinished(evs, finished_ids) ==
    IF evs = <<>> THEN <<>>
    ELSE (IF Head(evs).id \notin finished_ids THEN <<Head(evs)>> ELSE <<>>)
         \o KeepUnfinished(Tail(evs), finished_ids)

check_events(b) ==
    LET finished_ids == {b.events[i].id : i \in {j \in 1..Len(b.events) :
                                                   EventFinished(b, b.events[j])}}
    IN [b EXCEPT !.events = KeepUnfinished(b.events, finished_ids)]

current_season(b) ==
    IF Len(seasons) > 0 /\ 0 <= b.season_index /\ b.season_index < Len(seasons)
    THEN <<seasons[b.season_index + 1]>> ELSE <<>>

WeekEndCalls(e, season) ==
    IF season # <<>> /\ season[1].on_week_end_calls # <<>>
    THEN [e EXCEPT !.b = execute(e.b, season[1].on_week_end_calls).b]
    ELSE e

SweepEvents(e) == [e EXCEPT !.b = check_events(e.b)]

on_week_end(e) ==
    SweepEvents(fire_pending_plot(WeekEndCalls(e, current_season(e.b))))

SeasonEndCalls(e, prev_calls) ==
    IF prev_calls # <<>> THEN [e EXCEPT !.b = execute(e.b, prev_calls).b] ELSE e

on_season_end(e) ==
    SeasonEndCalls(e,
        IF Len(seasons) > 0
        THEN seasons[((e.b.season_index - 1) % Len(seasons)) + 1].on_season_end_calls
        ELSE <<>>)

\* GameEngine.resolve_card(card, direction): [e, cards]
WeekEndIf(week_end, e) == IF week_end THEN on_week_end(e) ELSE e

SeasonEndIf(season_end, e) == IF season_end THEN on_season_end(e) ELSE e

\* faulty variant: the events are swept after every action
BoundariesSweeping(e, crossed) ==
    SeasonEndIf(crossed.season_end,
        WeekEndIf(crossed.week_end,
            SweepEvents(check_plot_conditions(
                [e EXCEPT !.b = run_day_end_hooks(crossed.b)]))))

\* the day boundary of resolve_card; crossed is the result of advance_day
Boundaries(e, crossed) ==
    SeasonEndIf(crossed.season_end,
        WeekEndIf(crossed.week_end,
            check_plot_conditions([e EXCEPT !.b = run_day_end_hooks(crossed.b)])))

\* faulty variant: the day is never advanced
ResolveWithoutDay(e, cards, card, r) ==
    [e |-> [e EXCEPT !.b = r.b],
     cards |-> IF r.tree_cards # <<>> THEN InsertTreeCards(cards, r.tree_cards)
               ELSE cards]

\* faulty variant: an InfoCard without next_cards consumes a day as well
ResolveInfoDay(e, cards, card, r) ==
    IF r.tree_cards # <<>>
    THEN [e |-> [e EXCEPT !.b = r.b],
          cards |-> InsertTreeCards(cards, r.tree_cards)]
    ELSE [e |-> Boundaries(e, advance_day(r.b)), cards |-> cards]

\* faulty variant: a week or season crossed by the days of advance_time
\* counts as a boundary of the resolution
WithTimeCrossings(e, r, crossed) ==
    [crossed EXCEPT !.week_end = @ \/ r.b.turn < e.b.turn,
                    !.season_end = @ \/ r.b.season_index # e.b.season_index]

ResolveWithTimeCrossings(e, cards, card, r) ==
    IF r.tree_cards # <<>>
    THEN [e |-> [e EXCEPT !.b = r.b],
          cards |-> InsertTreeCards(cards, r.tree_cards)]
    ELSE IF card.type = "info" THEN [e |-> [e EXCEPT !.b = r.b], cards |-> cards]
    ELSE [e |-> Boundaries(e, WithTimeCrossings(e, r, advance_day(r.b))),
          cards |-> cards]

\* resolve_card after the executor returned r
ResolveWith(e, cards, card, r) ==
    IF r.tree_cards # <<>>
    THEN [e |-> [e EXCEPT !.b = r.b],
          cards |-> InsertTreeCards(cards, r.tree_cards)]
    ELSE IF card.type = "info" THEN [e |-> [e EXCEPT !.b = r.b], cards |-> cards]
    ELSE [e |-> Boundaries(e, advance_day(r.b)), cards |-> cards]

resolve_card(e, cards, card, direction) ==
    ResolveWith(e, cards, card, executor_resolve_card(e.b, card, direction))

is_week_over(cards, imm) == cards = <<>> /\ imm = <<>>

DeathKey(d) ==
    "death_" \o d.cause_stat \o "_" \o (IF d.cause_value <= 0 THEN "min" ELSE "max")

\* faulty variant: a card of the deck is queued in place of the death card
handle_death_choice(pdc, imm, d) ==
    [pending_death_cards |-> pdc,
     immediate_deque |-> Append(imm, validate_card_def(StatCardDef, known_ids,
                                                       [c \in {StatCardDef.id} |-> FALSE]))]

\* handle_death(death): [pending_death_cards, immediate_deque]
handle_death(pdc, imm, d) ==
    LET key == DeathKey(d)
        death_card == IF key \in DOMAIN pdc THEN pdc[key]
                      ELSE InfoCard("death_uuid", "narrator", "info", 5, <<>>)
    IN [pending_death_cards |-> [k \in DOMAIN pdc \ {key} |-> pdc[k]],
        immediate_deque |-> Append(imm, death_card)]

\* GameEngine.resurrect(): [karma_returned, m, b, fired]
endings_fired(f) == {id \in NodeIds : NodeDef(id).is_ending /\ f[id]}

\* faulty variant: the active events survive
ResurrectKeepingEvents(r, f) ==
    [karma_returned |-> r.karma_returned,
     m |-> r.m,
     b |-> r.b,
     fired |-> partial_reset(f, endings_fired(f))]

ResurrectEngine(r, f) ==
    [karma_returned |-> r.karma_returned,
     m |-> r.m,
     b |-> [r.b EXCEPT !.events = <<>>],
     fired |-> partial_reset(f, endings_fired(f))]

engine_resurrect(b, m, f, tag_order) ==
    ResurrectEngine(resurrect(b, m, tag_order), f)

AdvanceSeasonIn(r) == [r EXCEPT !.b = advance_to_next_season(r.b)]

\* GameEngine.complete_resurrection()
complete_resurrection(b, m, f, tag_order) ==
    AdvanceSeasonIn(engine_resurrect(b, m, f, tag_order))

\* faulty variant: the reserved ids are diverted in every batch
RECURSIVE RouteCardsAnyBatch(_, _, _, _)
RouteCardsAnyBatch(acc, cds, is_season_start, swap) ==
    IF cds = <<>> THEN acc
    ELSE LET cd == Head(cds)
             card == validate_card_def(cd, known_ids, swap)
             next ==
                 IF cd.type = "info"
                 THEN IF cd.id = WELCOME_CARD_ID
                      THEN [acc EXCEPT !.welcome_card = <<card>>]
                      ELSE IF StartsWith(cd.id, REBORN_CARD_PREFIX)
                      THEN [acc EXCEPT !.reborn_card = <<card>>]
                      ELSE IF StartsWith(cd.id, SEASON_CARD_PREFIX)
                      THEN [acc EXCEPT !.season_start_card = <<card>>]
                      ELSE IF StartsWith(cd.id, DEATH_CARD_PREFIX)
                      THEN [acc EXCEPT !.pending_death_cards =
                                           (cd.id :> card) @@ @]
                      ELSE [acc EXCEPT !.deck_cards = Append(@, cd)]
                 ELSE [acc EXCEPT !.deck_cards = Append(@, cd)]
         IN RouteCardsAnyBatch(next, Tail(cds), is_season_start, swap)

\* routing loop of process_batch_output: acc = [welcome_card, reborn_card,
\* season_start_card, pending_death_cards, deck_cards]
RECURSIVE RouteCards(_, _, _, _)
RouteCards(acc, cds, is_season_start, swap) ==
    IF cds = <<>> THEN acc
    ELSE LET cd == Head(cds)
             card == validate_card_def(cd, known_ids, swap)
             next ==
                 IF cd.type = "info" /\ is_season_start
                 THEN IF cd.id = WELCOME_CARD_ID
                      THEN [acc EXCEPT !.welcome_card = <<card>>]
                      ELSE IF StartsWith(cd.id, REBORN_CARD_PREFIX)
                      THEN [acc EXCEPT !.reborn_card = <<card>>]
                      ELSE IF StartsWith(cd.id, SEASON_CARD_PREFIX)
                      THEN [acc EXCEPT !.season_start_card = <<card>>]
                      ELSE IF StartsWith(cd.id, DEATH_CARD_PREFIX)
                      THEN [acc EXCEPT !.pending_death_cards =
                                           (cd.id :> card) @@ @]
                      ELSE [acc EXCEPT !.deck_cards = Append(@, cd)]
                 ELSE [acc EXCEPT !.deck_cards = Append(@, cd)]
         IN RouteCards(next, Tail(cds), is_season_start, swap)

\* faulty variant: the season card is put in front of the welcome and reborn
\* cards
process_batch_output_season_first(batch, is_season_start, swap) ==
    LET acc == RouteCards([welcome_card |-> welcome_card,
                           reborn_card |-> reborn_card,
                           season_start_card |-> season_start_card,
                           pending_death_cards |-> pending_death_cards,
                           deck_cards |-> <<>>],
                          batch, is_season_start, swap)
        cards == bulk_insert(deque, WEEK_DECK_SIZE,
                             validate_card_defs(acc.deck_cards, known_ids, swap))
        imm == IF is_season_start
               THEN acc.season_start_card \o acc.reborn_card \o acc.welcome_card
                    \o immediate_deque
               ELSE immediate_deque
    IN /\ deque' = cards
       /\ immediate_deque' = imm
       /\ pending_death_cards' = acc.pending_death_cards
       /\ welcome_card' = IF is_season_start THEN <<>> ELSE acc.welcome_card
       /\ reborn_card' = IF is_season_start THEN <<>> ELSE acc.reborn_card
       /\ season_start_card' = IF is_season_start THEN <<>> ELSE acc.season_start_card
       /\ is_first_day_after_death' =
              IF is_season_start THEN FALSE ELSE is_first_day_after_death

\* process_batch_output(batch_output, is_season_start)
process_batch_output(batch, is_season_start, swap) ==
    LET acc == RouteCards([welcome_card |-> welcome_card,
                           reborn_card |-> reborn_card,
                           season_start_card |-> season_start_card,
                           pending_death_cards |-> pending_death_cards,
                           deck_cards |-> <<>>],
                          batch, is_season_start, swap)
        cards == bulk_insert(deque, WEEK_DECK_SIZE,
                             validate_card_defs(acc.deck_cards, known_ids, swap))
        imm == IF is_season_start
               THEN acc.welcome_card \o acc.reborn_card \o acc.season_start_card
                    \o immediate_deque
               ELSE immediate_deque
    IN /\ deque' = cards
       /\ immediate_deque' = imm
       /\ pending_death_cards' = acc.pending_death_cards
       /\ welcome_card' = IF is_season_start THEN <<>> ELSE acc.welcome_card
       /\ reborn_card' = IF is_season_start THEN <<>> ELSE acc.reborn_card
       /\ season_start_card' = IF is_season_start THEN <<>> ELSE acc.season_start_card
       /\ is_first_day_after_death' =
              IF is_season_start THEN FALSE ELSE is_first_day_after_death

----------------------------------------------------------------------------
(* The state machine.  pc is the position of the game screen:              *)
(*   loading      first Writer batch of the loading screen                 *)
(*   begin_week   GameScreen._begin_new_week                               *)
(*   generating   the fill-week request is in flight                       *)
(*   draw         GameScreen._draw_next_card                               *)
(*   idle         a card is shown, waiting for a swipe                     *)
(*   resolved     action_swipe, after engine.resolve_card                  *)
(*   handle_death action_swipe, check_death returned a DeathInfo           *)
(*   ended        the ending screen                                        *)

E == [b |-> B, pending_plot_node |-> pending_plot_node, fired |-> fired,
      job_queue |-> job_queue]

M == [karma |-> karma, life_number |-> life_number,
      previous_life_tags |-> previous_life_tags]

\* state after GameEngine.build_from_schema
Init ==
    /\ stats = [sid \in StatIds |-> STAT_RESET]
    /\ tags = {}
    /\ npcs = [n \in NpcIds |-> [enabled |-> TRUE, npc_appearance_count |-> 0]]
    /\ day = START_DAY
    /\ season_index = START_SEASON_INDEX
    /\ year = StartYear
    /\ turn = 0
    /\ pending_plot_node = <<>>
    /\ karma = <<>>
    /\ life_number = 1
    /\ previous_life_tags = <<>>
    /\ is_first_day_after_death = FALSE
    /\ welcome_card = <<>>
    /\ reborn_card = <<>>
    /\ season_start_card = <<>>
    /\ pending_death_cards = <<>>
    /\ events = <<>>
    /\ deque = <<>>
    /\ cards_consumed = 0
    /\ immediate_deque = <<>>
    /\ fired = [id \in NodeIds |-> FALSE]
    /\ job_queue = <<>>
    /\ is_generating = FALSE
    /\ awaiting_resurrection = FALSE
    /\ current_card = <<>>
    /\ pc = "loading"
    /\ death = <<>>
    /\ req_season_start = FALSE
    /\ last_karma = <<>>
    /\ swiped = "none"
    /\ crossing = <<>>
    /\ deck_log = NoLog

\* LoadingScreen: drain the jobs, generate the first batch, route it, then
\* switch to the game screen (whose on_mount begins the first week)
LoadingGenerate(batch, swap) ==
    /\ pc = "loading"
    /\ process_batch_output(batch, day = 1, swap)
    /\ job_queue' = <<>>
    /\ pc' = "begin_week"
    /\ UNCHANGED <<bvars, lifevars, pending_plot_node, cards_consumed, fired,
                   is_generating, awaiting_resurrection, current_card, death,
                   req_season_start, swiped, auxvars>>

\* _begin_new_week with forced cards waiting: draw them first
BeginWeekForced ==
    /\ pc = "begin_week"
    /\ immediate_deque # <<>>
    /\ pc' = "draw"
    /\ UNCHANGED <<bvars, lifevars, slotvars, pending_plot_node,
                   is_first_day_after_death, pending_death_cards, deque,
                   cards_consumed, immediate_deque, fired, job_queue,
                   is_generating, awaiting_resurrection, current_card, death,
                   req_season_start, swiped, auxvars>>

\* what engine.fill_week_deck does before it awaits the generator: the flag
\* is raised, the season-start context is taken and the jobs are drained
fill_week_deck_begin(d) ==
    [is_generating |-> TRUE, req_season_start |-> (d = 1), job_queue |-> <<>>]

\* faulty variant: the card of the last week stays the current card
StartGenerationKeepingCard ==
    /\ pc = "begin_week"
    /\ immediate_deque = <<>>
    /\ current_card' = current_card
    /\ IF is_generating
       THEN /\ pc' = "idle"
            /\ UNCHANGED <<is_generating, req_season_start, job_queue>>
       ELSE /\ pc' = "generating"
            /\ is_generating' = fill_week_deck_begin(day).is_generating
            /\ req_season_start' = fill_week_deck_begin(day).req_season_start
            /\ job_queue' = fill_week_deck_begin(day).job_queue
    /\ UNCHANGED <<bvars, lifevars, slotvars, pending_plot_node,
                   is_first_day_after_death, pending_death_cards, deque,
                   cards_consumed, immediate_deque, fired,
                   awaiting_resurrection, death, swiped, auxvars>>

\* _begin_new_week without forced cards: show the empty deck and start the
\* fill-week request (_fill_week_deck returns at once when one is in flight)
StartGeneration ==
    /\ pc = "begin_week"
    /\ immediate_deque = <<>>
    /\ current_card' = <<>>
    /\ IF is_generating
       THEN /\ pc' = "idle"
            /\ UNCHANGED <<is_generating, req_season_start, job_queue>>
       ELSE /\ pc' = "generating"
            /\ is_generating' = fill_week_deck_begin(day).is_generating
            /\ req_season_start' = fill_week_deck_begin(day).req_season_start
            /\ job_queue' = fill_week_deck_begin(day).job_queue
    /\ UNCHANGED <<bvars, lifevars, slotvars, pending_plot_node,
                   is_first_day_after_death, pending_death_cards, deque,
                   cards_consumed, immediate_deque, fired,
                   awaiting_resurrection, death, swiped, auxvars>>

\* the request returns a batch: route it, clear the flag, draw the first card
FinishGeneration(batch, swap) ==
    /\ pc = "generating"
    /\ process_batch_output(batch, req_season_start, swap)
    /\ is_generating' = FALSE
    /\ pc' = "draw"
    /\ UNCHANGED <<bvars, lifevars, pending_plot_node, cards_consumed, fired,
                   job_queue, awaiting_resurrection, current_card, death,
                   req_season_start, swiped, auxvars>>

\* _draw_next_card: engine.draw_card()
DrawNextCard ==
    /\ pc = "draw"
    /\ immediate_deque = <<>> /\ deque # <<>> => cards_consumed < MaxConsumed
    /\ LET d == draw_card(immediate_deque, deque, cards_consumed)
       IN /\ current_card' = d.card
          /\ immediate_deque' = d.immediate_deque
          /\ deque' = d.cards
          /\ cards_consumed' = d.cards_consumed
    /\ pc' = "idle"
    /\ UNCHANGED <<bvars, lifevars, slotvars, pending_plot_node,
                   is_first_day_after_death, pending_death_cards, fired,
                   job_queue, is_generating, awaiting_resurrection, death,
                   req_season_start, swiped, auxvars>>

\* action_swipe(direction): engine.resolve_card(current_card, direction)
Swipe(direction) ==
    /\ pc = "idle"
    /\ current_card # <<>>
    /\ year <= MaxYear
    /\ LET r == resolve_card(E, deque, current_card[1], direction)
       IN /\ SetB(r.e.b)
          /\ pending_plot_node' = r.e.pending_plot_node
          /\ fired' = r.e.fired
          /\ job_queue' = r.e.job_queue
          /\ deque' = r.cards
    /\ swiped' = direction
    /\ pc' = "resolved"
    /\ UNCHANGED <<lifevars, slotvars, is_first_day_after_death,
                   pending_death_cards, cards_consumed, immediate_deque,
                   is_generating, awaiting_resurrection, current_card, death,
                   req_season_start,
                   auxvars>>

\* action_swipe, the death card was flipped: engine.complete_resurrection()
CompleteResurrection(tag_order) ==
    /\ pc = "resolved"
    /\ awaiting_resurrection
    /\ LET r == complete_resurrection(B, M, fired, tag_order)
       IN /\ SetB(r.b)
          /\ karma' = r.m.karma
          /\ life_number' = r.m.life_number
          /\ previous_life_tags' = r.m.previous_life_tags
          /\ last_karma' = r.karma_returned
          /\ fired' = r.fired
    /\ awaiting_resurrection' = FALSE
    /\ deque' = <<>>
    /\ cards_consumed' = 0
    /\ pending_death_cards' = <<>>
    /\ is_first_day_after_death' = TRUE
    /\ swiped' = "none"
    /\ pc' = "begin_week"
    /\ UNCHANGED <<slotvars, pending_plot_node, immediate_deque, job_queue,
                   is_generating, current_card, death, req_season_start,
                   auxvars>>

\* action_swipe after a resolution: check_death, check_ending, is_week_over
CheckAfterResolve ==
    /\ pc = "resolved"
    /\ ~awaiting_resurrection
    /\ swiped' = "none"
    /\ LET d == check_death(B, life_number)
       IN /\ death' = d
          /\ pc' = IF d # <<>> THEN "handle_death"
                   ELSE IF check_ending(fired) # <<>> THEN "ended"
                   ELSE IF is_week_over(deque, immediate_deque) THEN "begin_week"
                   ELSE "draw"
    /\ UNCHANGED <<bvars, lifevars, slotvars, pending_plot_node,
                   is_first_day_after_death, pending_death_cards, deque,
                   cards_consumed, immediate_deque, fired, job_queue,
                   is_generating, awaiting_resurrection, current_card,
                   req_season_start,
                   auxvars>>

\* faulty variant: the reset of the new life is done at once
HandleDeathResetting ==
    /\ pc = "handle_death"
    /\ life_number < MaxLife
    /\ pending_death_cards' = pending_death_cards
    /\ immediate_deque' = Append(immediate_deque,
                                 InfoCard("death_uuid", "narrator", "info", 5, <<>>))
    /\ stats' = [sid \in DOMAIN stats |-> STAT_RESET]
    /\ awaiting_resurrection' = TRUE
    /\ pc' = "draw"
    /\ UNCHANGED <<tags, npcs, day, season_index, year, turn, events, lifevars,
                   slotvars, pending_plot_node, is_first_day_after_death, deque,
                   cards_consumed, fired, job_queue, is_generating, current_card,
                   death, req_season_start, swiped, auxvars>>

\* action_swipe: engine.handle_death(death), then the death card is drawn
HandleDeath ==
    /\ pc = "handle_death"
    /\ life_number < MaxLife
    /\ LET r == handle_death(pending_death_cards, immediate_deque, death[1])
       IN /\ pending_death_cards' = r.pending_death_cards
          /\ immediate_deque' = r.immediate_deque
    /\ awaiting_resurrection' = TRUE
    /\ pc' = "draw"
    /\ UNCHANGED <<bvars, lifevars, slotvars, pending_plot_node,
                   is_first_day_after_death, deque, cards_consumed, fired,
                   job_queue, is_generating, current_card, death,
                   req_season_start, swiped, auxvars>>

Next ==
    \/ \E batch \in Batches : \E swap \in SwapsOf(batch) : LoadingGenerate(batch, swap)
    \/ BeginWeekForced
    \/ StartGeneration
    \/ \E batch \in Batches : \E swap \in SwapsOf(batch) : FinishGeneration(batch, swap)
    \/ DrawNextCard
    \/ \E direction \in {"left", "right"} : Swipe(direction)
    \/ \E tag_order \in TagOrders(tags) : CompleteResurrection(tag_order)
    \/ CheckAfterResolve
    \/ HandleDeath

Spec == Init /\ [][Next]_vars

----------------------------------------------------------------------------
(* A second specification for the karma cap: the death card has just been  *)
(* flipped in a life that collected up to MaxTags + 1 tags, and the only   *)
(* step is complete_resurrection.                                          *)

MaxTags == 11     \* number of permanent tags the life may have collected

\* one enumeration of the tags: MaxTags permanent ones and a temporary one
TagPool ==
    [i \in 1..(MaxTags + 1) |->
        IF i <= MaxTags THEN "tag" \o ToString(i) ELSE "_temp_scared"]

Rotate(seq, k) == [i \in 1..Len(seq) |-> seq[((i + k - 1) % Len(seq)) + 1]]

RECURSIVE Restrict(_, _)
Restrict(seq, S) ==
    IF seq = <<>> THEN <<>>
    ELSE (IF Head(seq) \in S THEN <<Head(seq)>> ELSE <<>>) \o Restrict(Tail(seq), S)

\* iteration orders of the set S: the rotations of the enumeration, so that
\* every tag is in turn the first and the last one iterated
RotationOrders(S) == {Restrict(Rotate(TagPool, k), S) : k \in 0..MaxTags}

\* the tag sets of the initial states: n consecutive tags of a rotation
TagSets ==
    {SeqToSet(SubSeq(Rotate(TagPool, k), 1, n)) : k \in 0..MaxTags, n \in 0..(MaxTags + 1)}

InitKarma ==
    /\ stats \in {[sid \in StatIds |-> IF sid = dead THEN v ELSE STAT_RESET] :
                     dead \in StatIds, v \in {STAT_MIN, STAT_MAX}}
    /\ tags \in TagSets
    /\ npcs \in {[n \in NpcIds |-> [enabled |-> TRUE, npc_appearance_count |-> c]] :
                     c \in {0, 2}}
    /\ day = START_DAY + 1
    /\ season_index = START_SEASON_INDEX
    /\ year = StartYear
    /\ turn = 1
    /\ pending_plot_node = <<>>
    /\ karma = <<>>
    /\ life_number = 1
    /\ previous_life_tags = <<>>
    /\ is_first_day_after_death = FALSE
    /\ welcome_card = <<>>
    /\ reborn_card = <<>>
    /\ season_start_card = <<>>
    /\ pending_death_cards = <<>>
    /\ events = <<>>
    /\ deque = <<>>
    /\ cards_consumed = 1
    /\ immediate_deque = <<>>
    /\ fired = [id \in NodeIds |-> FALSE]
    /\ job_queue = <<>>
    /\ is_generating = FALSE
    /\ awaiting_resurrection = TRUE
    /\ current_card = <<InfoCard("death_uuid", "narrator", "info", 5, <<>>)>>
    /\ pc = "resolved"
    /\ death = <<>>
    /\ req_season_start = FALSE
    /\ last_karma = <<>>
    /\ swiped = "left"
    /\ crossing = <<>>
    /\ deck_log = NoLog

NextKarma == \E tag_order \in RotationOrders(tags) : CompleteResurrection(tag_order)

SpecKarma == InitKarma /\ [][NextKarma]_vars

----------------------------------------------------------------------------
(* A third specification for the calendar: the blackboard is at any date   *)
(* and turn of its ranges (day 1-28, season 0-3, turn 0-6) and the only    *)
(* step is a call of advance_day, whose returned dict is kept in crossing. *)

InitCalendar ==
    /\ stats = [sid \in StatIds |-> STAT_RESET]
    /\ tags = {}
    /\ npcs = [n \in NpcIds |-> [enabled |-> TRUE, npc_appearance_count |-> 0]]
    /\ day \in 1..DAYS_PER_SEASON
    /\ season_index \in 0..(SEASONS_PER_YEAR - 1)
    /\ year \in StartYear..MaxYear
    /\ turn \in 0..(DAYS_PER_WEEK - 1)
    /\ pending_plot_node = <<>>
    /\ karma = <<>>
    /\ life_number = 1
    /\ previous_life_tags = <<>>
    /\ is_first_day_after_death = FALSE
    /\ welcome_card = <<>>
    /\ reborn_card = <<>>
    /\ season_start_card = <<>>
    /\ pending_death_cards = <<>>
    /\ events = <<>>
    /\ deque = <<>>
    /\ cards_consumed = 0
    /\ immediate_deque = <<>>
    /\ fired = [id \in NodeIds |-> FALSE]
    /\ job_queue = <<>>
    /\ is_generating = FALSE
    /\ awaiting_resurrection = FALSE
    /\ current_card = <<>>
    /\ pc = "calendar"
    /\ death = <<>>
    /\ req_season_start = FALSE
    /\ last_karma = <<>>
    /\ swiped = "none"
    /\ crossing = <<>>
    /\ deck_log = NoLog

\* crossed = state.advance_day()
AdvanceDayCall ==
    /\ pc = "calendar"
    /\ year <= MaxYear
    /\ LET r == advance_day(B)
       IN /\ SetB(r.b)
          /\ crossing' = <<[week_end |-> r.week_end, season_end |-> r.season_end]>>
    /\ UNCHANGED <<lifevars, slotvars, pending_plot_node,
                   is_first_day_after_death, pending_death_cards, deque,
                   cards_consumed, immediate_deque, fired, job_queue,
                   is_generating, awaiting_resurrection, current_card, pc,
                   death, req_season_start, swiped, deck_log>>

NextCalendar == AdvanceDayCall

SpecCalendar == InitCalendar /\ [][NextCalendar]_vars

----------------------------------------------------------------------------
(* A fourth specification for the priority deck alone: a WeightedDeque of  *)
(* capacity DeckCap on which insert, bulk_insert, draw and clear are       *)
(* called in any order, at most MaxInserted cards being inserted between   *)
(* two clears.  deck_log keeps the last call, its arguments and result,    *)
(* and the bags of the cards inserted and drawn since the last clear.      *)

DeckCap == 2          \* capacity given to WeightedDeque
MaxInserted == 4      \* cards inserted between two clears

\* cards as the deck sees them: an id, a source and a priority; as in the
\* deck tests the priority need not be the one of the source
DeckCards ==
    {InfoCard("common_a", "narrator", "common", PRIORITY_COMMON, <<>>),
     InfoCard("common_b", "narrator", "common", PRIORITY_COMMON, <<>>),
     InfoCard("common_hi", "narrator", "common", PRIORITY_PLOT, <<>>),
     InfoCard("event_1", "narrator", "event", PRIORITY_EVENT, <<>>),
     InfoCard("plot_1", "narrator", "plot", PRIORITY_PLOT, <<>>),
     InfoCard("tree_1", "narrator", "tree", PRIORITY_TREE, <<>>)}

DeckCard(id) == CHOOSE c \in DeckCards : c.id = id

\* the batches given to bulk_insert
DeckBatches ==
    {<<DeckCard("common_a"), DeckCard("common_b")>>,
     <<DeckCard("common_hi"), DeckCard("common_a")>>,
     <<DeckCard("plot_1"), DeckCard("common_b")>>,
     <<DeckCard("tree_1"), DeckCard("event_1")>>}

RECURSIVE BagOf(_)
BagOf(cards) ==
    IF cards = <<>> THEN EmptyBag
    ELSE SetToBag({Head(cards)}) (+) BagOf(Tail(cards))

InitDeck ==
    /\ stats = [sid \in StatIds |-> STAT_RESET]
    /\ tags = {}
    /\ npcs = [n \in NpcIds |-> [enabled |-> TRUE, npc_appearance_count |-> 0]]
    /\ day = START_DAY
    /\ season_index = START_SEASON_INDEX
    /\ year = StartYear
    /\ turn = 0
    /\ pending_plot_node = <<>>
    /\ karma = <<>>
    /\ life_number = 1
    /\ previous_life_tags = <<>>
    /\ is_first_day_after_death = FALSE
    /\ welcome_card = <<>>
    /\ reborn_card = <<>>
    /\ season_start_card = <<>>
    /\ pending_death_cards = <<>>
    /\ events = <<>>
    /\ deque = <<>>
    /\ cards_consumed = 0
    /\ immediate_deque = <<>>
    /\ fired = [id \in NodeIds |-> FALSE]
    /\ job_queue = <<>>
    /\ is_generating = FALSE
    /\ awaiting_resurrection = FALSE
    /\ current_card = <<>>
    /\ pc = "deck"
    /\ death = <<>>
    /\ req_season_start = FALSE
    /\ last_karma = <<>>
    /\ swiped = "none"
    /\ crossing = <<>>
    /\ deck_log = NoLog

\* what the deck runs leave alone
deckframe ==
    <<bvars, lifevars, slotvars, pending_plot_node, is_first_day_after_death,
      pending_death_cards, immediate_deque, fired, job_queue, is_generating,
      awaiting_resurrection, current_card, pc, death, req_season_start,
      swiped, crossing>>

\* deque.insert(card)
DeckInsert(card) ==
    /\ pc = "deck"
    /\ BagCardinality(deck_log.inserted) < MaxInserted
    /\ deque' = deque_insert(deque, DeckCap, card)
    /\ deck_log' = [op |-> "insert", args |-> <<card>>, returned |-> <<>>,
                    inserted |-> deck_log.inserted (+) SetToBag({card}),
                    drawn |-> deck_log.drawn,
                    interleaved |-> deck_log.interleaved
                                    \/ deck_log.drawn # EmptyBag]
    /\ UNCHANGED <<cards_consumed, deckframe>>

\* deque.bulk_insert(new)
DeckBulkInsert(new) ==
    /\ pc = "deck"
    /\ BagCardinality(deck_log.inserted) + Len(new) <= MaxInserted
    /\ deque' = bulk_insert(deque, DeckCap, new)
    /\ deck_log' = [op |-> "bulk_insert", args |-> new, returned |-> <<>>,
                    inserted |-> deck_log.inserted (+) BagOf(new),
                    drawn |-> deck_log.drawn,
                    interleaved |-> deck_log.interleaved
                                    \/ deck_log.drawn # EmptyBag]
    /\ UNCHANGED <<cards_consumed, deckframe>>

\* deque.draw()
DeckDraw ==
    /\ pc = "deck"
    /\ LET d == deque_draw(deque, cards_consumed)
       IN /\ deque' = d.cards
          /\ cards_consumed' = d.cards_consumed
          /\ deck_log' = [deck_log EXCEPT !.op = "draw", !.args = <<>>,
                                          !.returned = d.card,
                                          !.drawn = @ (+) BagOf(d.card)]
    /\ UNCHANGED deckframe

\* deque.clear()
DeckClear ==
    /\ pc = "deck"
    /\ deque' = deque_clear.cards
    /\ cards_consumed' = deque_clear.cards_consumed
    /\ deck_log' = [NoLog EXCEPT !.op = "clear"]
    /\ UNCHANGED deckframe

NextDeck ==
    \/ \E card \in DeckCards : DeckInsert(card)
    \/ \E new \in DeckBatches : DeckBulkInsert(new)
    \/ DeckDraw
    \/ DeckClear

SpecDeck == InitDeck /\ [][NextDeck]_vars

----------------------------------------------------------------------------
(* A fifth specification for the resolution of one card: a card is shown   *)
(* and another one waits in the deck, in the middle or on the last day of  *)
(* a week, with events of every kind active; the steps are the swipe, the  *)
(* checks after it and the next draw.  The cards carry the calls a         *)
(* generator may emit: unregistered names, ids of entities that do not     *)
(* exist, several update_stat calls, calls that finish an event, add_event  *)
(* calls that reuse an id.                                                 *)

ResolveCards ==
    {ChoiceCard("c_unknown_fn", "narrator", "common", PRIORITY_COMMON,
                <<FC("summon_dragon", NoParams), CallAddTag("brave"),
                  FC("", NoParams), CallUpdateStat1("treasury", -30)>>,
                <<CallUpdateStatExplicit("military", 30),
                  FC("teleport", NoParams)>>,
                <<>>, <<>>),
     ChoiceCard("c_missing", "king", "common", PRIORITY_COMMON,
                <<CallUpdateStat1("gold", 5), CallUpdateStatExplicit("gold", 5),
                  CallAdvanceEvent("ghost"), CallUpdateEventProgress("ghost", 1),
                  FC("change_event_deadline",
                     [NoParams EXCEPT !.event_id = "ghost", !.has_deadline = TRUE,
                                      !.deadline = <<9, 3, 9>>]),
                  CallRemoveEvent("ghost")>>,
                <<CallEnableNpc("nobody"), CallDisableNpc("nobody"),
                  CallUpdateStatFlat(<<Item("gold", -5), Item("mana", 5)>>)>>,
                <<>>, <<>>),
     ChoiceCard("c_stats", "king", "common", PRIORITY_COMMON,
                <<CallUpdateStat1("treasury", 30), CallUpdateStat1("treasury", 30)>>,
                <<CallUpdateStatFlat(<<Item("treasury", 30), Item("military", -60)>>)>>,
                <<>>, <<>>),
     ChoiceCard("c_events", "narrator", "event", PRIORITY_EVENT,
                <<CallUpdateEventProgress("quest", 2)>>,
                <<CallAdvanceEvent("war")>>,
                <<>>, <<>>),
     ChoiceCard("c_twins", "narrator", "event", PRIORITY_EVENT,
                <<CallAddProgressEvent("twin", 2), CallAddPhaseEvent("twin", 0)>>,
                <<CallAddPhaseEvent("twin", 1), CallAddPhaseEvent("twin", 1),
                  CallAdvanceEvent("twin")>>,
                <<>>, <<>>)}

\* the active events: none; finished ones around a ConditionEvent whose
\* end_condition does not evaluate; an expired TimedEvent with unfinished
\* ones; an event constructed with hook calls (EventBase.on_action_end_calls,
\* which add_event itself always leaves empty)
ResolveEvents ==
    {<<>>,
     <<NewEvent("feast", "phase"),
       NewEvent("curse", "condition"),
       [NewEvent("siege", "progress") EXCEPT !.target = 1, !.current = 1]>>,
     <<[NewEvent("truce", "timed") EXCEPT !.deadline = <<2, 0, 1>>],
       [NewEvent("quest", "progress") EXCEPT !.target = 2],
       [NewEvent("war", "phase") EXCEPT !.nphases = 1]>>,
     <<[NewEvent("levy", "progress") EXCEPT
            !.target = 9,
            !.on_action_end_calls = <<CallUpdateStat1("treasury", 1)>>]>>}

InitResolve ==
    /\ stats \in {[sid \in StatIds |-> STAT_RESET],
                  [sid \in StatIds |-> IF sid = "treasury" THEN 90 ELSE 10]}
    /\ tags = {}
    /\ npcs = [n \in NpcIds |-> [enabled |-> TRUE, npc_appearance_count |-> 0]]
    /\ day \in {3, DAYS_PER_SEASON}
    /\ season_index = START_SEASON_INDEX
    /\ year = StartYear
    /\ turn \in {2, DAYS_PER_WEEK - 1}
    /\ pending_plot_node = <<>>
    /\ karma = <<>>
    /\ life_number = 1
    /\ previous_life_tags = <<>>
    /\ is_first_day_after_death = FALSE
    /\ welcome_card = <<>>
    /\ reborn_card = <<>>
    /\ season_start_card = <<>>
    /\ pending_death_cards = <<>>
    /\ events \in ResolveEvents
    /\ deque \in {<<c>> : c \in ResolveCards}
    /\ cards_consumed = 1
    /\ immediate_deque = <<>>
    /\ fired = [id \in NodeIds |-> FALSE]
    /\ job_queue = <<>>
    /\ is_generating = FALSE
    /\ awaiting_resurrection = FALSE
    /\ current_card \in {<<c>> : c \in ResolveCards}
    /\ pc = "idle"
    /\ death = <<>>
    /\ req_season_start = FALSE
    /\ last_karma = <<>>
    /\ swiped = "none"
    /\ crossing = <<>>
    /\ deck_log = NoLog

NextResolve ==
    \/ \E direction \in {"left", "right"} : Swipe(direction)
    \/ CheckAfterResolve
    \/ DrawNextCard

SpecResolve == InitResolve /\ [][NextResolve]_vars

----------------------------------------------------------------------------
(* Properties.                                                             *)

\* the steps of the game loop, told by the position they leave
SwipeStep == pc = "idle" /\ pc' = "resolved"
HandleDeathStep == pc = "handle_death" /\ pc' = "draw"
ResurrectionStep == pc = "resolved" /\ awaiting_resurrection /\ pc' = "begin_week"

IsDeathCard(card) == card.type = "info" /\ StartsWith(card.id, "death_")

\* C1: every stat stays within [0,100] in every reachable state, and an
\* update_stat of any delta writes exactly the sum cut to [0,100]
ClaimDeltas == {-120, -20, 20, 120}

Cut(v) == IF v > 100 THEN 100 ELSE IF v < 0 THEN 0 ELSE v

C1_StatsInRange ==
    /\ \A sid \in StatIds : stats[sid] >= 0 /\ stats[sid] <= 100
    /\ \A sid \in StatIds : \A delta \in ClaimDeltas :
          /\ update_stat(B, CallUpdateStat1(sid, delta).params).b.stats[sid]
                 = Cut(stats[sid] + delta)
          /\ update_stat(B, CallUpdateStatExplicit(sid, delta).params).b.stats[sid]
                 = Cut(stats[sid] + delta)

\* C1 witness: a card was resolved whose write of 80 + 30 was cut to 100
C1_Witness ==
    /\ pc = "resolved"
    /\ current_card # <<>> /\ current_card[1].type = "choice"
    /\ \E sid \in StatIds : stats[sid] = 100

\* C2: the death cycle.  The awaiting-resurrection flag is set only by
\* handle_death and cleared only by complete_resurrection, which starts the
\* next life; while it is set the card shown is the queued death card (an
\* InfoCard), the only card resolved is that card, and no stat changes.
C2_DeathCycle ==
    [][/\ (~awaiting_resurrection /\ awaiting_resurrection') => HandleDeathStep
       /\ (awaiting_resurrection /\ ~awaiting_resurrection') =>
             ResurrectionStep /\ life_number' = life_number + 1
       /\ (awaiting_resurrection /\ pc = "draw") =>
             Len(immediate_deque) = 1 /\ IsDeathCard(immediate_deque[1])
       /\ (awaiting_resurrection /\ pc \in {"idle", "resolved"}) =>
             current_card # <<>> /\ IsDeathCard(current_card[1])
       /\ (awaiting_resurrection /\ SwipeStep) =>
             current_card[1].type # "choice"
       /\ (awaiting_resurrection /\ awaiting_resurrection') => stats' = stats
       /\ HandleDeathStep => stats' = stats /\ awaiting_resurrection'
      ]_vars

\* C2 witness: the death card has been resolved with ChoiceCards still in
\* the deck, and the resurrection is about to run
C2_Witness ==
    /\ awaiting_resurrection
    /\ pc = "resolved"
    /\ deque # <<>>
    /\ \E i \in 1..Len(deque) : deque[i].type = "choice"

\* C3: complete_resurrection leaves day 1 of the season after the one of the
\* death: season_index advanced by exactly one, year incremented exactly when
\* the season wraps from 3 to 0
C3_NextSeasonOnly ==
    [][ResurrectionStep =>
          /\ day' = 1
          /\ season_index' = (season_index + 1) % 4
          /\ year' = IF season_index = 3 THEN year + 1 ELSE year
      ]_vars

\* C4: the resurrection reset.  The returned karma is made of the tags that do
\* not start with "_temp": all of them when there are at most 10, 10 of them
\* otherwise; the tags become exactly that karma; every stat is 50;
\* life_number is one more; every NPC appearance counter is 0.
PermanentTags(S) == {t \in S : ~StartsWith(t, "_temp")}

C4_ResurrectionReset ==
    [][ResurrectionStep =>
          /\ SeqToSet(last_karma') \subseteq PermanentTags(tags)
          /\ Cardinality(SeqToSet(last_karma')) = Len(last_karma')
          /\ Len(last_karma') = IF Cardinality(PermanentTags(tags)) <= 10
                                THEN Cardinality(PermanentTags(tags)) ELSE 10
          /\ tags' = SeqToSet(last_karma')
          /\ DOMAIN stats' = DOMAIN stats
          /\ \A sid \in DOMAIN stats' : stats'[sid] = 50
          /\ life_number' = life_number + 1
          /\ DOMAIN npcs' = DOMAIN npcs
          /\ \A n \in DOMAIN npcs' : npcs'[n].npc_appearance_count = 0
      ]_vars

\* C4 witness: a life that ended with more than 10 permanent tags was reset:
\* the new life carries 10 tags and none of the temporary ones
C4_Witness ==
    /\ pc = "begin_week"
    /\ life_number = 2
    /\ Len(last_karma) = 10
    /\ Cardinality(tags) = 10
    /\ \A sid \in StatIds : stats[sid] = 50

\* C5: after complete_resurrection the active events, the deck (and its
\* consumed counter) and pending_death_cards are empty
C5_ClearedByResurrection ==
    [][ResurrectionStep =>
          /\ events' = <<>>
          /\ deque' = <<>>
          /\ cards_consumed' = 0
          /\ pending_death_cards' = <<>>
      ]_vars

\* C5 witness: the death card of a life with an active event, cards in the
\* deck and consumed cards has been flipped, and the next life begins empty
C5_Witness ==
    /\ pc = "begin_week"
    /\ is_first_day_after_death
    /\ life_number > 1
    /\ events = <<>> /\ deque = <<>> /\ cards_consumed = 0
    /\ pending_death_cards = <<>>
    /\ Len(karma) > 0

\* C6: across a resurrection every non-ending node is unfired and every fired
\* ending stays fired, whether or not keep_fired lists it; a fired ending is
\* never unfired, so check_ending keeps returning a node
C6_PartialReset ==
    [][/\ ResurrectionStep =>
             \A id \in NodeIds : fired'[id] = (NodeDef(id).is_ending /\ fired[id])
       /\ \A keep_fired \in SUBSET NodeIds : \A id \in NodeIds :
             (NodeDef(id).is_ending /\ fired[id]) => partial_reset(fired, keep_fired)[id]
       /\ \A id \in NodeIds : (NodeDef(id).is_ending /\ fired[id]) => fired'[id]
       /\ check_ending(fired) # <<>> => check_ending(fired') # <<>>
      ]_vars

\* C6 witness: a new life begins with an ending that fired in the previous one
C6_Witness ==
    /\ pc = "begin_week"
    /\ is_first_day_after_death
    /\ life_number > 1
    /\ check_ending(fired) # <<>>
    /\ \A id \in NodeIds : ~NodeDef(id).is_ending => ~fired[id]

\* C7: check_death reports a death exactly when some stat is at 0 or at 100;
\* the cause value is the bound and the cause stat is at that bound
C7_CheckDeath ==
    /\ (check_death(B, life_number) # <<>>)
          <=> (\E sid \in StatIds : stats[sid] = 0 \/ stats[sid] = 100)
    /\ check_death(B, life_number) # <<>> =>
          /\ check_death(B, life_number)[1].cause_value \in {0, 100}
          /\ check_death(B, life_number)[1].cause_stat \in StatIds
          /\ stats[check_death(B, life_number)[1].cause_stat]
                 = check_death(B, life_number)[1].cause_value
    /\ pc = "handle_death" => death = check_death(B, life_number) /\ death # <<>>

\* C7 witness: the game loop detected a death by a stat at 0
C7_Witness ==
    /\ pc = "handle_death"
    /\ death # <<>>
    /\ death[1].cause_value = 0
    /\ stats[death[1].cause_stat] = 0

\* C8: handle_death changes no stat, tag, calendar field, life number, karma,
\* NPC record, event, deck card or fired flag; it queues one card and sets
\* the awaiting-resurrection flag
C8_HandleDeathFrame ==
    [][HandleDeathStep =>
          /\ UNCHANGED <<stats, tags, day, season_index, year, turn, life_number,
                         karma, npcs, events, deque, cards_consumed, fired>>
          /\ Len(immediate_deque') = Len(immediate_deque) + 1
          /\ awaiting_resurrection'
      ]_vars

\* C8 witness: handle_death has run for a death at the upper bound
C8_Witness ==
    /\ pc = "draw"
    /\ awaiting_resurrection
    /\ immediate_deque # <<>>
    /\ \E sid \in StatIds : stats[sid] = 100

\* the card handle_death queues for the death d
QueuedDeathCard(pdc, d) ==
    IF DeathKey(d) \in DOMAIN pdc THEN pdc[DeathKey(d)]
    ELSE InfoCard("death_uuid", "narrator", "info", 5, <<>>)

\* C9: right after handle_death, draw_card returns the card it queued, and
\* that card is the one shown next
C9_DeathCardNext ==
    [][/\ HandleDeathStep =>
             draw_card(immediate_deque', deque', cards_consumed').card
                 = <<QueuedDeathCard(pending_death_cards, death[1])>>
       /\ (pc = "draw" /\ awaiting_resurrection /\ pc' = "idle") =>
             /\ current_card' = <<immediate_deque[1]>>
             /\ IsDeathCard(current_card'[1])
             /\ deque' = deque
      ]_vars

\* C9 witness: the death card is shown while the deck still holds cards
C9_Witness ==
    /\ pc = "idle"
    /\ awaiting_resurrection
    /\ current_card # <<>> /\ IsDeathCard(current_card[1])
    /\ deque # <<>>

\* days added by the advance_time calls of a choice
RECURSIVE ExtraDays(_)
ExtraDays(calls) ==
    IF calls = <<>> THEN 0
    ELSE (IF Head(calls).name = "advance_time" /\ Head(calls).params.days > 0
          THEN Head(calls).params.days ELSE 0) + ExtraDays(Tail(calls))

AbsoluteDay(d, s, y) == y * 112 + s * 28 + d

ChosenCalls(card, direction) == IF direction = "left" THEN card.left ELSE card.right

ChosenTree(card, direction) ==
    IF direction = "left" THEN card.tree_left ELSE card.tree_right

\* the calendar moved by n days in all
MovedBy(n) ==
    /\ AbsoluteDay(day', season_index', year') = AbsoluteDay(day, season_index, year) + n
    /\ day' \in 1..28 /\ season_index' \in 0..3
    /\ turn' = (turn + n) % 7

\* C10 as stated: resolving any ChoiceCard in either direction advances the
\* calendar by exactly one day beyond the days of its advance_time calls
C10_OneDayPerChoiceCard ==
    [][(SwipeStep /\ current_card[1].type = "choice") =>
          MovedBy(ExtraDays(ChosenCalls(current_card[1], swiped')) + 1)
      ]_vars

\* C10 amended: the day is advanced exactly when the chosen side yields no
\* tree cards; with tree cards the calendar moves by the advance_time days only
C10_OneDayUnlessTreeCards ==
    [][(SwipeStep /\ current_card[1].type = "choice") =>
          IF ChosenTree(current_card[1], swiped') = <<>>
          THEN MovedBy(ExtraDays(ChosenCalls(current_card[1], swiped')) + 1)
          ELSE MovedBy(ExtraDays(ChosenCalls(current_card[1], swiped')))
      ]_vars

\* C10 witness: a ChoiceCard without tree cards on the chosen side was
\* resolved and the day wrapped into the next season, the turn into a new week
C10_Witness ==
    /\ pc = "resolved"
    /\ current_card # <<>> /\ current_card[1].type = "choice"
    /\ ChosenTree(current_card[1], swiped) = <<>>
    /\ ExtraDays(ChosenCalls(current_card[1], swiped)) > 0
    /\ day = 1 /\ turn = 0 /\ season_index = 1

\* C11: resolving an InfoCard through the engine executes no calls and does
\* not advance the calendar: stats, tags, day, season_index, year, turn, the
\* events, the NPC appearance counters and pending_plot_node are unchanged,
\* and the executor's result has is_info true, no stat changes and the
\* card's next_cards as its tree cards
C11_InfoCardFrame ==
    [][(SwipeStep /\ current_card[1].type = "info") =>
          /\ UNCHANGED <<stats, tags, day, season_index, year, turn, events,
                         npcs, pending_plot_node>>
          /\ LET r == executor_resolve_card(B, current_card[1], swiped')
             IN /\ r.is_info
                /\ r.stat_changes = <<>>
                /\ r.tree_cards = current_card[1].next_cards
                /\ r.b = B]_vars

\* an InfoCard with next_cards was resolved and its next card is in the deck
\* as a tree card
C11_Witness ==
    /\ pc = "resolved"
    /\ current_card # <<>>
    /\ current_card[1].type = "info"
    /\ current_card[1].next_cards # <<>>
    /\ \E i \in 1..Len(deque) :
          /\ deque[i].source = "tree"
          /\ deque[i].id = current_card[1].next_cards[1].id

\* the dicts returned by n consecutive advance_day calls from b, each with
\* the blackboard it left
RECURSIVE Crossings(_, _)
Crossings(b, n) ==
    IF n = 0 THEN <<>>
    ELSE LET r == advance_day(b) IN <<r>> \o Crossings(r.b, n - 1)

\* C12: from turn = 0, seven consecutive advance_day calls report week_end
\* false on the first six and true on the seventh, and the seventh resets
\* turn to 0
C12_WeekEndOnSeventh ==
    turn = 0 =>
        LET cs == Crossings(B, DAYS_PER_WEEK)
        IN /\ \A i \in 1..(DAYS_PER_WEEK - 1) :
                 ~cs[i].week_end /\ cs[i].b.turn = i
           /\ cs[DAYS_PER_WEEK].week_end
           /\ cs[DAYS_PER_WEEK].b.turn = 0

\* an advance_day call reported the week end and left turn at 0
C12_Witness ==
    /\ pc = "calendar"
    /\ crossing # <<>>
    /\ crossing[1].week_end
    /\ turn = 0

\* C13: advance_day reports season_end exactly on the call that moves day
\* past 28; that call sets day to 1 and season_index to (season_index + 1)
\* mod 4, and adds one to year exactly when season_index wraps from 3 to 0;
\* every other call adds one to day and leaves season_index and year alone
C13_SeasonEnd ==
    [][pc = "calendar" =>
          /\ crossing' # <<>>
          /\ crossing'[1].season_end = (day + 1 > 28)
          /\ IF day + 1 > 28
             THEN /\ day' = 1
                  /\ season_index' = (season_index + 1) % 4
                  /\ year' = IF season_index = 3 THEN year + 1 ELSE year
             ELSE /\ day' = day + 1
                  /\ UNCHANGED <<season_index, year>>]_vars

\* a call reported the season end and wrapped season_index to 0 in a new year
C13_Witness ==
    /\ pc = "calendar"
    /\ crossing # <<>>
    /\ crossing[1].season_end
    /\ day = 1
    /\ season_index = 0
    /\ year > StartYear

\* C14: draw() on a non-empty deck removes and returns a card whose priority
\* is the maximum among the cards present, whatever insert, bulk_insert,
\* draw and clear calls came before; on an empty deck it returns none and
\* changes nothing
C14_DrawMaxPriority ==
    [][(pc = "deck" /\ deck_log'.op = "draw") =>
          IF deque = <<>>
          THEN /\ deck_log'.returned = <<>>
               /\ UNCHANGED <<deque, cards_consumed>>
               /\ deck_log'.drawn = deck_log.drawn
          ELSE \E i \in 1..Len(deque) :
                  /\ deck_log'.returned = <<deque[i]>>
                  /\ \A j \in 1..Len(deque) :
                        deque[j].priority <= deque[i].priority
                  /\ deque' = RemoveAt(deque, i)
                  /\ cards_consumed' = cards_consumed + 1]_vars

\* a draw returned a card and left a card of lower priority in the deck,
\* after both insertions and earlier draws
C14_Witness ==
    /\ pc = "deck"
    /\ deck_log.op = "draw"
    /\ deck_log.returned # <<>>
    /\ deck_log.interleaved
    /\ deque # <<>>
    /\ deque[1].priority < deck_log.returned[1].priority

\* the deck was filled by insert / bulk_insert calls and then drawn until
\* empty, no card being inserted after the first draw
FilledThenDrained ==
    /\ pc = "deck"
    /\ deck_log.op = "draw"
    /\ ~deck_log.interleaved
    /\ deque = <<>>

\* C15 as stated: after insert / bulk_insert calls followed by drawing until
\* the deck is empty, the multiset of the cards drawn equals the multiset of
\* the cards inserted
C15_DrawnEqualsInserted ==
    FilledThenDrained => deck_log.drawn = deck_log.inserted

\* C15, amended: after insert / bulk_insert calls followed by drawing until
\* the deck is empty, no card was drawn more often than it was inserted,
\* every card of a source other than "common" was drawn as often as it was
\* inserted, and the two multisets are equal when at most capacity cards
\* were inserted
C15_DrawnWithinInserted ==
    FilledThenDrained =>
        /\ deck_log.drawn \sqsubseteq deck_log.inserted
        /\ \A c \in BagToSet(deck_log.inserted) :
              c.source # "common" =>
                  CopiesIn(c, deck_log.drawn) = CopiesIn(c, deck_log.inserted)
        /\ BagCardinality(deck_log.inserted) <= DeckCap =>
              deck_log.drawn = deck_log.inserted

\* more cards than the capacity were inserted, one of them twice, and the
\* deck was drawn until empty: a common card is missing from the drawn ones
\* while every other card came out
C15_Witness ==
    /\ FilledThenDrained
    /\ BagCardinality(deck_log.inserted) > DeckCap
    /\ \E c \in BagToSet(deck_log.inserted) :
          c.source # "common" /\ CopiesIn(c, deck_log.drawn) = 2
    /\ \E c \in BagToSet(deck_log.inserted) :
          c.source = "common" /\ CopiesIn(c, deck_log.drawn) = 0

\* the cards of source "common" in a list, and the number of the others
AllCommon(cards) == \A i \in 1..Len(cards) : cards[i].source = "common"

NonCommonCount(cards) ==
    Cardinality({i \in 1..Len(cards) : cards[i].source # "common"})

\* an insert or bulk_insert call of common-source cards only, on a deck that
\* those cards would take over the capacity
CommonInsertOverCapacity ==
    /\ pc = "deck"
    /\ deck_log'.op \in {"insert", "bulk_insert"}
    /\ AllCommon(deck_log'.args)
    /\ Len(deque) + Len(deck_log'.args) > DeckCap

\* C16 as stated: inserting common-source cards (by insert or bulk_insert)
\* so that the deck would exceed capacity always leaves the deck at exactly
\* capacity cards
C16_ExactlyCapacity ==
    [][CommonInsertOverCapacity => Len(deque') = DeckCap]_vars

\* C16, amended: inserting common-source cards so that the deck would exceed
\* capacity leaves the deck at capacity cards when it holds at most capacity
\* cards of other sources, and otherwise at exactly its cards of other
\* sources, every common card being evicted
C16_CapacityOrNonCommon ==
    [][CommonInsertOverCapacity =>
          /\ Len(deque') = Max(DeckCap, NonCommonCount(deque))
          /\ NonCommonCount(deque') = NonCommonCount(deque)]_vars

\* a bulk_insert of common cards went over the capacity of a deck that held
\* a card of another source, and left the deck at capacity with that card
C16_Witness ==
    /\ pc = "deck"
    /\ deck_log.op = "bulk_insert"
    /\ AllCommon(deck_log.args)
    /\ Len(deque) = DeckCap
    /\ NonCommonCount(deque) > 0
    /\ BagCardinality(deck_log.inserted)
          > Len(deque) + BagCardinality(deck_log.drawn)

\* the cards an insert or bulk_insert step evicted: those of the deck and of
\* the arguments that are not in the deck afterwards
Evicted == (BagOf(deque) (+) BagOf(deck_log'.args)) (-) BagOf(deque')

\* C17: eviction only removes cards whose source is "common", and among the
\* common cards those of lowest priority; a card of any other source stays
\* in the deck until it is drawn or the deck is cleared, even when the deck
\* is over capacity
C17_EvictsLowestCommonOnly ==
    [][pc = "deck" =>
          /\ deck_log'.op \in {"insert", "bulk_insert"} =>
                /\ BagOf(deque') \sqsubseteq (BagOf(deque) (+) BagOf(deck_log'.args))
                /\ \A c \in BagToSet(Evicted) :
                      /\ c.source = "common"
                      /\ \A i \in 1..Len(deque') :
                            deque'[i].source = "common" =>
                                c.priority <= deque'[i].priority
          /\ \A c \in DeckCards :
                (c.source # "common" /\ deck_log'.op # "clear") =>
                    CopiesIn(c, BagOf(deque'))
                        >= CopiesIn(c, BagOf(deque))
                           - (IF deck_log'.op = "draw" /\ deck_log'.returned = <<c>>
                              THEN 1 ELSE 0)]_vars

\* an insert of a common card into a deck that cards of other sources keep
\* over capacity: the common card was evicted, the others all stayed
C17_Witness ==
    /\ pc = "deck"
    /\ deck_log.op = "insert"
    /\ Len(deque) > DeckCap
    /\ ~AllCommon(deque)
    /\ deck_log.args[1].source = "common"
    /\ \A i \in 1..Len(deque) : deque[i] # deck_log.args[1]

\* C18: get_activatable_nodes never returns a fired node or a node with an
\* unfired predecessor, and it returns every unfired node whose predecessors
\* are all fired and whose condition is true in the current state
C18_ActivatableNodes ==
    LET returned == SeqToSet(get_activatable_nodes(fired, B))
    IN \A id \in NodeIds :
          id \in returned <=>
              /\ ~fired[id]
              /\ \A p \in NodeIds :
                    id \in SeqToSet(NodeDef(p).next_nodes) => fired[p]
              /\ check_condition(NodeDef(id), B)

\* the day check after a swipe found the node "crown", whose predecessor
\* "rise" is fired, and kept it as the pending plot node
C18_Witness ==
    /\ pc = "resolved"
    /\ fired["rise"]
    /\ ~fired["crown"]
    /\ pending_plot_node = <<"crown">>
    /\ get_activatable_nodes(fired, B) = <<"crown">>

\* the step fires the plot node id: its plot job is enqueued (the node's
\* calls are executed by the same fire_pending_plot call)
Fires(id) == job_queue' = Append(job_queue, id)

\* C19: a plot node fires at most once per life: a node is fired (its calls
\* executed, its plot job enqueued) only while it is unfired, the firing
\* marks it fired, and only a resurrection un-fires a node, so that between
\* two resurrections no node fires twice
C19_FireOncePerLife ==
    [][\A id \in NodeIds :
          /\ Fires(id) => (~fired[id] /\ fired'[id] /\ SwipeStep)
          /\ (~fired[id] /\ fired'[id]) => Fires(id)
          /\ (fired[id] /\ ~fired'[id]) => ResurrectionStep]_vars

\* in a later life a week end fired the node "rise", which every resurrection
\* un-fires: it is marked fired and its plot job is the last one enqueued
C19_Witness ==
    /\ pc = "resolved"
    /\ life_number > 1
    /\ job_queue # <<>>
    /\ job_queue[Len(job_queue)] = "rise"
    /\ fired["rise"]
    /\ pending_plot_node = <<>>

\* C20: fire_node(id) marks an unfired node fired and returns it; on an id
\* that is already fired or unknown it returns nothing and changes no node
C20_FireNodeIdempotent ==
    \A id \in NodeIds \cup {"no_such_node"} :
        LET r == fire_node(fired, id)
        IN IF id \in NodeIds /\ ~fired[id]
           THEN /\ r.node = <<NodeDef(id)>>
                /\ r.fired = [fired EXCEPT ![id] = TRUE]
           ELSE /\ r.node = <<>>
                /\ r.fired = fired

\* the swipe step crosses a week boundary: the card is a ChoiceCard whose
\* chosen side has no tree cards and its advance_day call reports week_end
WeekBoundaryStep ==
    /\ SwipeStep
    /\ current_card[1].type = "choice"
    /\ ChosenTree(current_card[1], swiped') = <<>>
    /\ advance_day(executor_resolve_card(B, current_card[1], swiped').b).week_end

EventIds(evs) == {evs[i].id : i \in 1..Len(evs)}

\* C21: the termination sweep runs at week boundaries and not per action: a
\* finished event (a PhaseEvent out of phases, a ProgressEvent at its target,
\* a TimedEvent past its deadline) stays in the active list through every
\* step that is not a week boundary, and after a week-boundary sweep it is
\* gone and no finished event is left
C21_SweepAtWeekBoundary ==
    [][/\ (SwipeStep /\ ~WeekBoundaryStep) =>
             \A i \in 1..Len(events) :
                 EventFinished(B, events[i]) => events[i].id \in EventIds(events')
       /\ WeekBoundaryStep =>
             /\ \A i \in 1..Len(events) :
                   EventFinished(B, events[i]) => events[i].id \notin EventIds(events')
             /\ \A j \in 1..Len(events') :
                   ~EventFinished([B EXCEPT !.stats = stats', !.tags = tags',
                                            !.day = day', !.season_index = season_index',
                                            !.year = year', !.events = events'],
                                  events'[j])
       /\ (~SwipeStep /\ ~ResurrectionStep) => UNCHANGED events]_vars

\* a swipe in mid-week took the ProgressEvent "quest" to its target and the
\* TimedEvent "truce" is past its deadline: both are still active
C21_Witness ==
    /\ pc = "resolved"
    /\ turn # 0
    /\ \E i \in 1..Len(events) :
          events[i].id = "quest" /\ ProgressEvent_is_finished(events[i])
    /\ \E i \in 1..Len(events) :
          events[i].id = "truce" /\ EventFinished(B, events[i])

IsReserved(cd) ==
    /\ cd.type = "info"
    /\ \/ cd.id = "welcome_message"
       \/ StartsWith(cd.id, "reborn_")
       \/ StartsWith(cd.id, "season_")
       \/ StartsWith(cd.id, "death_")

\* the definitions of a batch that are not diverted
RECURSIVE DeckDefs(_, _)
DeckDefs(batch, is_season_start) ==
    IF batch = <<>> THEN <<>>
    ELSE (IF is_season_start /\ IsReserved(Head(batch)) THEN <<>>
          ELSE <<Head(batch)>>) \o DeckDefs(Tail(batch), is_season_start)

\* a step that routes a batch, and the is_season_start it is routed with
BatchStep == pc \in {"loading", "generating"} /\ pc' \notin {"loading", "generating"}
BatchIsSeasonStart == IF pc = "loading" THEN day = 1 ELSE req_season_start

CardIds(cards) == {cards[i].id : i \in 1..Len(cards)}

\* definitions whose ids resemble the reserved ones
LookAlikes ==
    {ChoiceCardDef("death_duel", "king", "common", <<>>, <<>>, <<>>, <<>>),
     ChoiceCardDef("welcome_message", "king", "common", <<>>, <<>>, <<>>, <<>>),
     InfoCardDef("welcome_message_2", "narrator", "story", <<>>),
     InfoCardDef("seasonal", "narrator", "story", <<>>),
     InfoCardDef("the_death_of_a_king", "narrator", "story", <<>>)}

\* C23: process_batch_output diverts a card to a structural slot only when
\* the batch is a season-start batch and the card is an info card whose id is
\* welcome_message or starts with reborn_, season_ or death_; every other
\* card of the batch, and every card of a batch that is not a season-start
\* batch, goes to the deck
C23_DivertOnlyReserved ==
    [][BatchStep =>
          /\ \E batch \in Batches : \E swap \in SwapsOf(batch) :
                /\ deque' = bulk_insert(deque, WEEK_DECK_SIZE,
                                 validate_card_defs(DeckDefs(batch, BatchIsSeasonStart),
                                                    known_ids, swap))
                /\ (CardIds(immediate_deque') \ CardIds(immediate_deque))
                      \cup (DOMAIN pending_death_cards' \ DOMAIN pending_death_cards)
                   = {batch[i].id : i \in {k \in 1..Len(batch) :
                          BatchIsSeasonStart /\ IsReserved(batch[k])}}
          /\ ~BatchIsSeasonStart =>
                UNCHANGED <<immediate_deque, pending_death_cards, slotvars>>
          /\ \A cd \in LookAlikes : \A is_season_start \in BOOLEAN :
                RouteCards([welcome_card |-> <<>>, reborn_card |-> <<>>,
                            season_start_card |-> <<>>,
                            pending_death_cards |-> <<>>, deck_cards |-> <<>>],
                           <<cd>>, is_season_start, <<>>)
                = [welcome_card |-> <<>>, reborn_card |-> <<>>,
                   season_start_card |-> <<>>,
                   pending_death_cards |-> <<>>, deck_cards |-> <<cd>>]]_vars

\* a batch that was not a season-start batch left its welcome, season and
\* death cards in the deck
C23_Witness ==
    /\ pc = "draw"
    /\ ~req_season_start
    /\ ~is_generating
    /\ {"welcome_message", "season_start", "death_treasury_max"} \subseteq CardIds(deque)
    /\ immediate_deque = <<>>
    /\ pending_death_cards = <<>>

\* the place of a structural card in the presentation order
StructuralRank(card) ==
    IF card.type # "info" THEN 0
    ELSE IF card.id = "welcome_message" THEN 1
    ELSE IF StartsWith(card.id, "reborn_") THEN 2
    ELSE IF StartsWith(card.id, "season_") THEN 3
    ELSE 0

\* the structural cards a season-start batch brings or finds in the slots
StructuralKinds(batch) ==
    ({StructuralRank(batch[i]) : i \in 1..Len(batch)} \ {0})
        \cup (IF welcome_card # <<>> THEN {1} ELSE {})
        \cup (IF reborn_card # <<>> THEN {2} ELSE {})
        \cup (IF season_start_card # <<>> THEN {3} ELSE {})

DrawStep == pc = "draw" /\ pc' = "idle"

\* C24: a season-start batch that fills several structural slots puts the
\* cards in front of the forced queue in the order welcome, reborn, season
\* and leaves the three slots empty; every card of the forced queue is then
\* drawn in that order while the deck is left untouched, so all of them are
\* shown before any deck card
C24_StructuralOrder ==
    [][/\ (BatchStep /\ BatchIsSeasonStart) =>
             /\ welcome_card' = <<>> /\ reborn_card' = <<>>
             /\ season_start_card' = <<>>
             /\ \E batch \in Batches :
                   LET n == Len(immediate_deque') - Len(immediate_deque)
                   IN /\ n = Cardinality(StructuralKinds(batch))
                      /\ SubSeq(immediate_deque', n + 1, Len(immediate_deque'))
                            = immediate_deque
                      /\ {StructuralRank(immediate_deque'[i]) : i \in 1..n}
                            = StructuralKinds(batch)
                      /\ \A i \in 1..n : \A j \in 1..n :
                            i < j => StructuralRank(immediate_deque'[i])
                                       < StructuralRank(immediate_deque'[j])
       /\ (DrawStep /\ immediate_deque # <<>>) =>
             /\ current_card' = <<Head(immediate_deque)>>
             /\ immediate_deque' = Tail(immediate_deque)
             /\ UNCHANGED <<deque, cards_consumed>>]_vars

\* a season-start batch filled the three slots: the welcome, reborn and
\* season cards wait in that order, the slots are empty and the deck is full
C24_Witness ==
    /\ pc \in {"begin_week", "draw"}
    /\ Len(immediate_deque) = 3
    /\ StructuralRank(immediate_deque[1]) = 1
    /\ StructuralRank(immediate_deque[2]) = 2
    /\ StructuralRank(immediate_deque[3]) = 3
    /\ welcome_card = <<>> /\ reborn_card = <<>> /\ season_start_card = <<>>
    /\ deque # <<>>

\* the calls of a list whose names have a handler
RegisteredCalls(calls) == SelectSeq(calls, LAMBDA c : c.name \in Registry)

WithoutUnregistered(card) ==
    [card EXCEPT !.left = RegisteredCalls(@), !.right = RegisteredCalls(@)]

ChoiceSwipeStep == SwipeStep /\ current_card[1].type = "choice"

\* C25: a call whose name has no registered handler is ignored: executed on
\* its own it leaves stats, tags, NPCs, calendar and events as they are and
\* reports no change, and a swipe on a card holding such calls gives the
\* state and deck that the same card without them gives, so the calls after
\* it are executed in order
C25_UnknownFunctionIgnored ==
    [][ChoiceSwipeStep =>
          LET calls == ChosenCalls(current_card[1], swiped')
              clean == resolve_card(E, deque, WithoutUnregistered(current_card[1]),
                                    swiped')
          IN /\ \A i \in 1..Len(calls) :
                   calls[i].name \notin Registry =>
                       execute(B, <<calls[i]>>) = [b |-> B, changes |-> <<>>]
             /\ execute(B, calls) = execute(B, RegisteredCalls(calls))
             /\ SetB(clean.e.b)
             /\ deque' = clean.cards
             /\ pending_plot_node' = clean.e.pending_plot_node]_vars

\* the left side of c_unknown_fn was played: the add_tag and the update_stat
\* that follow the unknown names were applied
C25_Witness ==
    /\ pc = "resolved"
    /\ current_card # <<>>
    /\ current_card[1].id = "c_unknown_fn"
    /\ swiped = "left"
    /\ "brave" \in tags
    /\ stats["treasury"] \in {20, 60}
    /\ stats["military"] \in {10, 50}

\* the call names only entities that do not exist in b
NamesMissing(b, call) ==
    LET p == call.params
    IN CASE call.name = "update_stat" ->
              IF p.has_stat_id /\ p.has_delta
              THEN p.stat_id \notin DOMAIN b.stats
              ELSE /\ p.items # <<>>
                   /\ \A i \in 1..Len(p.items) :
                         p.items[i].k \notin DOMAIN b.stats
         [] call.name \in {"advance_event", "update_event_progress",
                           "change_event_deadline", "remove_event"} ->
              p.event_id \notin EventIds(b.events)
         [] call.name \in {"enable_npc", "disable_npc"} ->
              p.npc_id \notin DOMAIN b.npcs
         [] OTHER -> FALSE

\* C26: a call that names a stat, an event or an NPC that does not exist is
\* a no-op: executed on its own it leaves the blackboard as it is and reports
\* no stat change, and a side made of such calls only changes nothing but
\* the appearance count of the card's character: no stat, event or NPC is
\* created by the swipe, and on a day that ends no week and no season (their
\* hooks write stats, sweep events and fire plot nodes) stats, events and NPC flags are as
\* before
C26_MissingEntityNoOp ==
    [][ChoiceSwipeStep =>
          LET card == current_card[1]
              calls == ChosenCalls(card, swiped')
              r == executor_resolve_card(B, card, swiped')
          IN /\ \A i \in 1..Len(calls) :
                   NamesMissing(B, calls[i]) =>
                       execute(B, <<calls[i]>>) = [b |-> B, changes |-> <<>>]
             /\ (\A i \in 1..Len(calls) : NamesMissing(B, calls[i])) =>
                   /\ r.b = CountAppearance(B, card.character)
                   /\ r.stat_changes = <<>>
                   /\ (~advance_day(r.b).week_end /\ ~advance_day(r.b).season_end) =>
                         /\ stats' = stats
                         /\ events' = events
                         /\ \A n \in DOMAIN npcs :
                               npcs'[n].enabled = npcs[n].enabled
                   /\ DOMAIN stats' = DOMAIN stats
                   /\ DOMAIN npcs' = DOMAIN npcs
                   /\ \A i \in 1..Len(calls) :
                         calls[i].params.event_id \notin EventIds(events')]_vars

\* a side of c_missing was played in mid-week while events were active
\* (update_stat on gold and mana, the event calls on ghost, the NPC calls on
\* nobody): stats and events are those of the start
C26_Witness ==
    /\ pc = "resolved"
    /\ current_card # <<>>
    /\ current_card[1].id = "c_missing"
    /\ swiped \in {"left", "right"}
    /\ day = 4 /\ turn = 3
    /\ events \in ResolveEvents \ {<<>>}
    /\ stats \in {[sid \in StatIds |-> STAT_RESET],
                  [sid \in StatIds |-> IF sid = "treasury" THEN 90 ELSE 10]}
    /\ DOMAIN npcs = NpcIds
    /\ "ghost" \notin EventIds(events)

\* C27: an expression that fails to evaluate counts as false: the plot node
\* omen, whose condition is malformed and which has no predecessor, is never
\* activatable, pending or fired, and a ConditionEvent whose end-condition is
\* malformed is still active after every sweep while the finished events of
\* the same sweep are removed
C27_MalformedIsFalse ==
    [][/\ NodeDef("omen").condition = CondEmpty
       /\ predecessors("omen") = {}
       /\ ~check_condition(NodeDef("omen"), B)
       /\ "omen" \notin SeqToSet(get_activatable_nodes(fired, B))
       /\ pending_plot_node' # <<"omen">>
       /\ ~fired'["omen"]
       /\ "doomed" \notin tags'
       /\ WeekBoundaryStep =>
             \A i \in 1..Len(events) :
                /\ (events[i].type = "condition"
                      /\ events[i].end_condition = CondEmpty)
                      => \E j \in 1..Len(events') : events'[j] = events[i]
                /\ EventFinished(B, events[i])
                      => events[i].id \notin EventIds(events')]_vars

\* a week boundary swept the events feast, curse and siege: the finished
\* feast and siege are gone, the ConditionEvent curse with the malformed
\* end-condition is the one left, and omen was not fired
C27_Witness ==
    /\ pc = "resolved"
    /\ turn = 0
    /\ Len(events) >= 1
    /\ events[1].id = "curse"
    /\ events[1].type = "condition"
    /\ events[1].end_condition = CondEmpty
    /\ {"feast", "siege"} \cap EventIds(events) = {}
    /\ ~fired["omen"]

\* C28: the stat deltas returned by resolving a ChoiceCard are the net
\* applied changes: for every stat in the result, the reported delta is the
\* value of the stat after the resolution minus its value before it
C28_ReportedIsNet ==
    [][ChoiceSwipeStep =>
          LET r == executor_resolve_card(B, current_card[1], swiped')
          IN \A sid \in DOMAIN r.stat_changes :
                r.stat_changes[sid] = r.b.stats[sid] - stats[sid]]_vars

\* C29: the calendar fields stay in range in every reachable state, through
\* advance_day, advance_time, card resolution, death and resurrection:
\* 1 <= day <= 28, 0 <= season_index <= 3 and 0 <= turn <= 6
C29_CalendarInRange ==
    /\ 1 <= day /\ day <= DAYS_PER_SEASON
    /\ 0 <= season_index /\ season_index <= SEASONS_PER_YEAR - 1
    /\ 0 <= turn /\ turn <= DAYS_PER_WEEK - 1

\* in a later life, after the season jump of a resurrection, the right side
\* of c_time (advance_time by 27 days, then the day of the card) was played
C29_Witness ==
    /\ life_number > 1
    /\ pc = "resolved"
    /\ current_card # <<>>
    /\ current_card[1].id = "c_time"
    /\ swiped = "right"
    /\ season_index # START_SEASON_INDEX

\* C30: whenever the engine fires a plot node, all of that node's
\* predecessors are fired at that moment, also when a death and a
\* resurrection came between the day the node was recorded as pending and the
\* week boundary
C30_FiredAfterPredecessors ==
    [][\A id \in NodeIds :
          Fires(id) => \A q \in predecessors(id) : fired[q]]_vars

\* a swipe that consumes a day: a ChoiceCard whose chosen side has no tree cards
DayStep ==
    /\ ChoiceSwipeStep
    /\ ChosenTree(current_card[1], swiped') = <<>>

\* the activatable nodes _check_plot_conditions sees during the step
NodesAtDayEnd ==
    get_activatable_nodes(fired,
        advance_day(executor_resolve_card(B, current_card[1], swiped').b).b)

\* C31 as stated: a recorded pending node stays the pending node until the
\* next week boundary, where that same node is the one fired; it is not
\* replaced by another node or dropped before then
C31_PendingStable ==
    [][pending_plot_node # <<>> =>
          \/ pending_plot_node' = pending_plot_node
          \/ WeekBoundaryStep /\ Fires(pending_plot_node[1])]_vars

\* pending_plot_node after a day-consuming resolution that found nodes
OverwrittenBy(nodes) ==
    LET recorded == IF nodes # <<>> THEN <<nodes[1]>> ELSE pending_plot_node
    IN IF WeekBoundaryStep
       THEN recorded # <<>> => (pending_plot_node' = <<>> /\ Fires(recorded[1]))
       ELSE pending_plot_node' = recorded

\* C31 amended: a recorded pending node is not dropped before a week
\* boundary, but every day-consuming resolution that finds an activatable
\* node overwrites it with the first one found; only such a resolution
\* changes it, and at a week boundary the node fired is the one pending
\* after that overwrite
C31_PendingOverwritten ==
    [][/\ pending_plot_node' # pending_plot_node => DayStep
       /\ DayStep => OverwrittenBy(NodesAtDayEnd)]_vars

\* a week end fired rise, the first node found, while the conditions of ruin
\* held as well: ruin is unfired and not pending
C31_Witness ==
    /\ pc = "resolved"
    /\ turn = 0
    /\ job_queue # <<>>
    /\ job_queue[Len(job_queue)] = "rise"
    /\ fired["rise"] /\ ~fired["ruin"]
    /\ stats["military"] < 30
    /\ pending_plot_node = <<>>

\* the nodes whose fired flag the step sets
NewlyFired == {id \in NodeIds : ~fired[id] /\ fired'[id]}

\* C32: at each week boundary at most one plot node is fired, also when
\* several nodes are activatable at the same time: one plot job is enqueued,
\* the first node found is the one fired and the others stay unfired; no
\* node is fired by a step that is not a week boundary
C32_OneNodePerWeek ==
    [][/\ Cardinality(NewlyFired) <= 1
       /\ NewlyFired # {} =>
             /\ WeekBoundaryStep
             /\ Len(job_queue') = Len(job_queue) + 1
       /\ (WeekBoundaryStep /\ Len(NodesAtDayEnd) >= 2) =>
             /\ NewlyFired = {NodesAtDayEnd[1]}
             /\ \A i \in 2..Len(NodesAtDayEnd) : ~fired'[NodesAtDayEnd[i]]]_vars

\* a week boundary with rise and ruin both activatable fired rise only: ruin
\* is unfired and still activatable
C32_Witness ==
    /\ pc = "resolved"
    /\ turn = 0
    /\ job_queue = <<"rise">>
    /\ fired["rise"]
    /\ IsActivatable(fired, B, NodeDef("ruin"))

\* the events of a list that are not finished in b, in the order of the list
RECURSIVE Unfinished(_, _)
Unfinished(b, evs) ==
    IF evs = <<>> THEN <<>>
    ELSE (IF EventFinished(b, Head(evs)) THEN <<>> ELSE <<Head(evs)>>)
         \o Unfinished(b, Tail(evs))

\* C33: the sweep removes exactly the finished events: run on the active
\* list of any reachable state, check_events leaves the previous list, in the
\* same order, minus the events whose own termination condition holds, and
\* every event that is not finished remains
C33_SweepExact == check_events(B).events = Unfinished(B, events)

\* the step ran no week-end and no season-end work: the blackboard is the
\* one advance_day returned, and no plot node was fired
NoLifecycleWork(b) ==
    /\ SetB(b)
    /\ UNCHANGED <<fired, job_queue>>
    /\ pending_plot_node = <<>> \/ pending_plot_node' # <<>>

\* C34: the days advanced by an advance_time call trigger no week-end or
\* season-end work (season hook calls, firing of the pending node, event
\* sweep), also when they cross a week or a season boundary: a resolution
\* whose own single-day advance reports no boundary leaves the blackboard
\* that advance returned, fires no node and keeps the pending node, and a
\* node is fired only when that advance reports the week end
C34_AdvanceTimeNoLifecycle ==
    [][DayStep =>
          /\ (~advance_day(executor_resolve_card(B, current_card[1], swiped').b).week_end
               /\ ~advance_day(executor_resolve_card(B, current_card[1], swiped').b).season_end)
                => NoLifecycleWork(
                       advance_day(executor_resolve_card(B, current_card[1], swiped').b).b)
          /\ NewlyFired # {} =>
                advance_day(executor_resolve_card(B, current_card[1], swiped').b).week_end]_vars

\* the left side of c_time was played in mid-week with a node pending: the
\* six days of advance_time crossed a week boundary, the day of the card did
\* not, and the node is still pending
C34_Witness ==
    /\ pc = "resolved"
    /\ current_card # <<>>
    /\ current_card[1].id = "c_time"
    /\ swiped = "left"
    /\ turn # 0
    /\ pending_plot_node # <<>>
    /\ ~fired[pending_plot_node[1]]

\* the follow-ups of the card just resolved: the chosen side's tree cards of
\* a ChoiceCard, the next_cards of an InfoCard
FollowUps(card, direction) ==
    IF card.type = "info" THEN card.next_cards ELSE ChosenTree(card, direction)

\* ids of the next n cards draw_card returns
RECURSIVE NextDrawn(_, _, _)
NextDrawn(imm, cards, n) ==
    IF n = 0 THEN <<>>
    ELSE LET d == draw_card(imm, cards, 0)
         IN IF d.card = <<>> THEN <<>>
            ELSE <<d.card[1].id>> \o NextDrawn(d.immediate_deque, d.cards, n - 1)

IdsOf(cards) == [i \in 1..Len(cards) |-> cards[i].id]

\* C35: follow-up cards are shown immediately after their parent: once a
\* card with follow-ups is resolved, and still after the checks the swipe
\* handler runs on that resolution, the next cards draw_card returns are
\* exactly those follow-ups in their listed order, before any other pending
\* card
C35_FollowUpsNext ==
    [][(pc = "resolved" /\ current_card # <<>>
          /\ FollowUps(current_card[1], swiped) # <<>>) =>
           /\ NextDrawn(immediate_deque, deque,
                        Len(FollowUps(current_card[1], swiped)))
                 = IdsOf(FollowUps(current_card[1], swiped))
           /\ NextDrawn(immediate_deque', deque',
                        Len(FollowUps(current_card[1], swiped)))
                 = IdsOf(FollowUps(current_card[1], swiped))]_vars

\* the priority of the card is the table image of its source
PriorityFromSource(card) ==
    /\ card.source \in SourcesWithPriority
    /\ card.priority = SOURCE_TO_PRIORITY(card.source)

\* C36: every card held in the deck or in the immediate queue has the
\* priority the fixed table gives for its source, whichever engine path
\* created it
C36_PriorityFromSource ==
    /\ \A i \in 1..Len(deque) : PriorityFromSource(deque[i])
    /\ \A i \in 1..Len(immediate_deque) : PriorityFromSource(immediate_deque[i])

\* the hook calls of the events evs, executed in order on b
RECURSIVE RunEventHooks(_, _)
RunEventHooks(b, evs) ==
    IF evs = <<>> THEN b
    ELSE RunEventHooks(execute(b, Head(evs).on_action_end_calls).b, Tail(evs))

\* the day boundary with the hook calls of every active event executed
BoundariesRunningHooks(e, crossed) ==
    SeasonEndIf(crossed.season_end,
        WeekEndIf(crossed.week_end,
            check_plot_conditions(
                [e EXCEPT !.b = RunEventHooks(crossed.b, crossed.b.events)])))

TurnAligned(b) == b.turn = (b.day - 1) % DAYS_PER_WEEK

\* an advance_day call on b that reports the season end reports the week end
SeasonEndInWeekEnd(b) == advance_day(b).season_end => advance_day(b).week_end

\* C38: in every reachable state turn = (day - 1) mod 7, and an advance_day
\* call that reports season_end also reports week_end, in the state itself
\* and in the one the calls of the shown card leave (advance_time included)
C38_TurnAligned ==
    /\ TurnAligned(B)
    /\ SeasonEndInWeekEnd(B)
    /\ (pc = "idle" /\ current_card # <<>>) =>
          \A direction \in {"left", "right"} :
              /\ TurnAligned(executor_resolve_card(B, current_card[1], direction).b)
              /\ SeasonEndInWeekEnd(
                     executor_resolve_card(B, current_card[1], direction).b)

\* in a later life the right side of c_time was played: advance_time moved
\* the calendar by 27 days and the day of the card ended a season and a week
C38_Witness ==
    /\ pc = "resolved"
    /\ life_number > 1
    /\ current_card # <<>>
    /\ current_card[1].id = "c_time"
    /\ swiped = "right"
    /\ day = 1
    /\ turn = 0

\* the week-end work with the on_week_end calls of the given season
on_week_end_of(e, season) ==
    SweepEvents(fire_pending_plot(WeekEndCalls(e, season)))

\* the day boundary in which the week-end calls are those of the season the
\* blackboard before was in when the day was advanced
BoundariesOfCompletedWeek(e, before, crossed) ==
    SeasonEndIf(crossed.season_end,
        IF crossed.week_end
        THEN on_week_end_of(check_plot_conditions([e EXCEPT !.b = crossed.b]),
                            current_season(before))
        ELSE check_plot_conditions([e EXCEPT !.b = crossed.b]))

\* C39: when a resolution crosses a week boundary, the on_week_end calls
\* executed are those of the season in which the completed week took place,
\* also for the last week of a season, and they run before the on_season_end
\* calls of that season
C39_WeekEndOfCompletedSeason ==
    [][(DayStep
         /\ advance_day(executor_resolve_card(B, current_card[1], swiped').b).week_end)
          => SetB(BoundariesOfCompletedWeek(E,
                     executor_resolve_card(B, current_card[1], swiped').b,
                     advance_day(executor_resolve_card(B, current_card[1], swiped').b)).b)]_vars

\* action_swipe finds the week over after a resolution and begins a new week
WeekOverStep ==
    /\ pc = "resolved"
    /\ ~awaiting_resurrection
    /\ pc' = "begin_week"
    /\ is_week_over(deque, immediate_deque)

\* C40: whenever the deck-based week is found over after a card resolution of
\* the game loop, the calendar has just crossed a week boundary: the week
\* counter is back at 0 and the day is the first of a calendar week
C40_DeckWeekIsCalendarWeek ==
    [][WeekOverStep => (turn = 0 /\ (day - 1) % DAYS_PER_WEEK = 0)]_vars

====
